---- MODULE Spec2Model ----
(***************************************************************************)
(* The mini-irc server: the per-connection session engine (process), the   *)
(* nickname registry, the room map with its broadcast topics and the       *)
(* framed codec, as a state machine.                                       *)
(*                                                                         *)
(* One session is one run of server/src/main.rs process().  A panic of a   *)
(* session task (an unwrap on None or Err, todo!()) unwinds that task: its *)
(* locals are dropped (the socket closes, the mailbox receiver and a       *)
(* receiver still held by the handler are dropped) and the code after the  *)
(* loop does not run.  A panic raised while the guard of the room map is   *)
(* alive poisons that mutex, and every later lock().unwrap() on it panics. *)
(***************************************************************************)
EXTENDS Integers, Sequences, FiniteSets, TLC

(* ---------------------------------------------------------------- bounds *)

\* Total number of events of the transports (frames received, failed reads
\* and writes) in one run, under Spec (two clients, any request), under
\* SpecTrio (three clients that have connected, each under its own
\* nickname, without a handshake) and under SpecShake (two shipped clients).
MaxRequests == 4
MaxTrioRequests == 2
MaxShakeRequests == 8

\* The connections accepted by main(), the nicknames and room names clients use.
Sessions == {1, 2, 3}
Pair == {1, 2}
Nicknames == {"alice", "bob", "carol"}
Names == {"", "alice", "bob"}
Nick(s) == CASE s = 1 -> "alice" [] s = 2 -> "bob" [] OTHER -> "carol"
Rooms == {"general", "random"}
Keys == {"k1", "k2"}
NoKey == "nokey"

\* broadcast::channel(capacity) of a room, mpsc::channel(32) of a session.
TopicCapacity == 32
MailboxCapacity == 32

(* ------------------------------------------------------------ wire types *)

\* Request: t is the variant, a its argument (key material, nickname, room),
\* c the content of a Message.  "Garbage" is a payload that is no Request.
Rq(t, a, c) == [t |-> t, a |-> a, c |-> c]
Garbage == Rq("Garbage", "", 0)

\* Response variants.
Resp(t, chan, op, who, content, text, users) ==
    [t |-> t, chan |-> chan, op |-> op, who |-> who, content |-> content,
     text |-> text, users |-> users]
Ack == Resp("Ack", "", "", "", 0, "", <<>>)
SecureResp == Resp("Secure", "", "", "", 0, "serverpk", <<>>)
Channel(op, who, content, chan) == Resp("Channel", chan, op, who, content, "", <<>>)
AckJoin(chan, users) == Resp("AckJoin", chan, "", "", 0, "", users)
AckLeave(who) == Resp("AckLeave", "", "", who, 0, "", <<>>)
AckConnect == Resp("AckConnect", "", "", "", 0, "Welcome", <<>>)
error(message) == Resp("Error", "", "", "", 0, message, <<>>)

Requests ==
    {Rq("Secure", a, 0) : a \in {"pk32", "pkshort"}}
    \cup {Rq("Shared", a, 0) : a \in Keys \cup {"undecryptable"}}
    \cup {Rq("Connect", a, 0) : a \in Names \cup Nicknames}
    \cup {Rq(t, a, 0) : t \in {"JoinChan", "LeaveChan"}, a \in Rooms}
    \cup {Rq("MsgChan", a, c) : a \in Rooms, c \in 1..(MaxRequests + MaxTrioRequests)}
    \cup {Rq("MsgUser", a, 0) : a \in Nicknames}

\* What the transport hands to recv: a read error, or a whole frame whose
\* payload was written plain (enc = NoKey) or encrypted under a key.
Encodings == {NoKey} \cup Keys
Frames ==
    {[io |-> "err", enc |-> NoKey, body |-> Garbage]}
    \cup [io : {"ok"}, enc : Encodings, body : Requests \cup {Garbage}]

(* ----------------------------------------------------------- framed codec *)

\* AsyncTypedWriter::send: the frame written for value under the writer's key.
send(value, key) == [io |-> "ok", enc |-> key, body |-> value]

\* AsyncTypedReader::recv: Err on a transport error; with a key the payload is
\* decrypted and a failure panics; without one a payload that does not
\* deserialize gives Ok(None).
recv(f, key) ==
    IF f.io = "err" THEN [kind |-> "err", rq |-> Garbage]
    ELSE IF key # NoKey
         THEN IF f.enc = key /\ f.body # Garbage
              THEN [kind |-> "some", rq |-> f.body]
              ELSE [kind |-> "panic", rq |-> Garbage]
         ELSE IF f.enc = NoKey /\ f.body # Garbage
              THEN [kind |-> "some", rq |-> f.body]
              ELSE [kind |-> "none", rq |-> Garbage]

(* ------------------------------------------------------------ the payload *)

\* The enums of the protocol as serde derives them: the variants in the
\* order of their declaration, each with the types of its fields. "Bytes" is
\* Vec<u8>, "VecString" is Vec<String>.
Variant(name, fields) == [name |-> name, fields |-> fields]
Variants(T) ==
    CASE T = "Request" ->
           <<Variant("Shared", <<"Bytes">>), Variant("Secure", <<"Bytes">>),
             Variant("Connect", <<"String">>), Variant("JoinChan", <<"String">>),
             Variant("LeaveChan", <<"String">>),
             Variant("Message", <<"MessageReceiver", "String">>)>>
      [] T = "MessageReceiver" ->
           <<Variant("User", <<"String">>), Variant("Channel", <<"String">>)>>
      [] T = "ChanOp" ->
           <<Variant("Message", <<"String", "String">>),
             Variant("UserAdd", <<"String">>), Variant("UserDel", <<"String">>)>>
      [] T = "Response" ->
           <<Variant("Ack", <<>>), Variant("Secure", <<"Bytes">>),
             Variant("DirectMessage", <<"String", "String">>),
             Variant("Channel", <<"ChanOp", "String">>),
             Variant("AckJoin", <<"String", "VecString">>),
             Variant("AckLeave", <<"String">>), Variant("AckConnect", <<"String">>),
             Variant("Error", <<"String">>)>>

\* A value of an enum: the name of its variant and its fields in order. A
\* String or a Vec<u8> is the sequence of its bytes.
Value(tag, fields) == [tag |-> tag, fields |-> fields]
Index(T, tag) == CHOOSE i \in 1..Len(Variants(T)) : Variants(T)[i].name = tag

\* n in k bytes, least significant first, and the number the first two of
\* such bytes hold; a number with a higher byte set is beyond any frame here.
RECURSIVE LittleEndian(_, _)
LittleEndian(n, k) ==
    IF k = 0 THEN <<>> ELSE <<n % 256>> \o LittleEndian(n \div 256, k - 1)
Beyond(bs, k) == \E i \in 3..k : bs[i] # 0
Low(bs) == bs[1] + 256 * bs[2]

\* from_utf8 for the strings of the model, which are ASCII.
Utf8(bs) == \A i \in 1..Len(bs) : bs[i] < 128

\* bincode::serialize with fixed-width integers: an enum is the u32 index of
\* its variant and then its fields, a String or a Vec is its u64 length and
\* then its elements.
RECURSIVE serialize(_, _), serializeAll(_, _)
serialize(T, v) ==
    IF T \in {"String", "Bytes"} THEN LittleEndian(Len(v), 8) \o v
    ELSE IF T = "VecString"
    THEN LittleEndian(Len(v), 8) \o serializeAll([i \in 1..Len(v) |-> "String"], v)
    ELSE LittleEndian(Index(T, v.tag) - 1, 4)
         \o serializeAll(Variants(T)[Index(T, v.tag)].fields, v.fields)
serializeAll(Ts, vs) ==
    IF Ts = <<>> THEN <<>>
    ELSE serialize(Head(Ts), Head(vs)) \o serializeAll(Tail(Ts), Tail(vs))

\* bincode's Deserializer: the value read from the front of bs and the bytes
\* after it, or a failure (not enough bytes, no such variant, not UTF-8).
Failure == [ok |-> FALSE, v |-> <<>>, rest |-> <<>>]
Read(v, rest) == [ok |-> TRUE, v |-> v, rest |-> rest]
From(bs, i) == SubSeq(bs, i, Len(bs))
RECURSIVE deserializeFrom(_, _), deserializeAll(_, _)
deserializeFrom(T, bs) ==
    IF T \in {"String", "Bytes", "VecString"}
    THEN IF Len(bs) < 8 \/ Beyond(bs, 8) THEN Failure
         ELSE IF T = "VecString"
         THEN deserializeAll([i \in 1..Low(bs) |-> "String"], From(bs, 9))
         ELSE IF Low(bs) > Len(bs) - 8 THEN Failure
         ELSE IF T = "String" /\ ~Utf8(SubSeq(bs, 9, 8 + Low(bs))) THEN Failure
         ELSE Read(SubSeq(bs, 9, 8 + Low(bs)), From(bs, 9 + Low(bs)))
    ELSE IF Len(bs) < 4 \/ Beyond(bs, 4) \/ Low(bs) >= Len(Variants(T)) THEN Failure
    ELSE LET fields == deserializeAll(Variants(T)[Low(bs) + 1].fields, From(bs, 5))
         IN IF fields.ok
            THEN Read(Value(Variants(T)[Low(bs) + 1].name, fields.v), fields.rest)
            ELSE Failure
deserializeAll(Ts, bs) ==
    IF Ts = <<>> THEN Read(<<>>, bs)
    ELSE LET a == deserializeFrom(Head(Ts), bs) IN
         IF ~a.ok THEN Failure
         ELSE LET b == deserializeAll(Tail(Ts), a.rest) IN
              IF b.ok THEN Read(<<a.v>> \o b.v, b.rest) ELSE Failure

\* bincode::deserialize(&buf): the value at the front of the buffer.
deserialize(T, buf) == deserializeFrom(T, buf)

(* -------------------------------------------------------------- the frame *)

\* A usize: hi is the part above 32 bits, w1 and w0 are the two 16-bit
\* words of the 32 bits below.
Usize(n) == [hi |-> 0, w1 |-> n \div 65536, w0 |-> n % 65536]
Less(a, b) ==
    \/ a.hi < b.hi
    \/ a.hi = b.hi /\ a.w1 < b.w1
    \/ a.hi = b.hi /\ a.w1 = b.w1 /\ a.w0 < b.w0

\* data.len() as u32, u32::to_be_bytes, u32::from_be_bytes and size as usize.
as_u32(n) == [n EXCEPT !.hi = 0]
to_be_bytes(n) == <<n.w1 \div 256, n.w1 % 256, n.w0 \div 256, n.w0 % 256>>
from_be_bytes(bs) == [hi |-> 0, w1 |-> 256 * bs[1] + bs[2], w0 |-> 256 * bs[3] + bs[4]]

\* A payload: its bytes when it is plain; when it is encrypted, the key and
\* the plain bytes sealed in it and the positions altered since; or a value
\* "of" whose encoding has len bytes that are not listed. part: it is a
\* strict prefix of what was written.
Payload(kind, key, bytes, of, len) ==
    [kind |-> kind, key |-> key, bytes |-> bytes, altered |-> {}, of |-> of,
     len |-> len, part |-> FALSE]
Plain(bytes) == Payload("bytes", NoKey, bytes, <<>>, Usize(Len(bytes)))

\* serde_encrypt, EncryptedMessage::serialize: a 24-byte nonce, then the
\* ciphertext of the bincode of the value with its 16-byte tag.
NonceSize == 24
TagSize == 16
encrypt(T, value, key) ==
    Payload("sealed", key, serialize(T, value), <<>>,
            Usize(NonceSize + Len(serialize(T, value)) + TagSize))

\* decrypt_owned: the value, when the message is whole, was sealed under
\* this key and no byte of it was altered.
Opens(buf, key) ==
    /\ buf.kind \in {"sealed", "large"}
    /\ buf.key = key
    /\ ~buf.part
    /\ buf.altered = {}

\* Mutant of the frame: the length is written least significant byte first.
FrameLittleEndian(data) ==
    [hdr |-> <<data.len.w0 % 256, data.len.w0 \div 256,
               data.len.w1 % 256, data.len.w1 \div 256>>,
     data |-> data, hdrok |-> TRUE, arrived |-> data.len]

\* send, the two write_all: the length as u32 in big-endian, then the
\* payload. hdrok and arrived: what of the frame reaches the reader before
\* the stream ends (all of it, when it is written).
Frame(data) ==
    [hdr |-> to_be_bytes(as_u32(data.len)), data |-> data,
     hdrok |-> TRUE, arrived |-> data.len]

\* AsyncTypedWriter::send / TypedWriter::send.
typed_send(T, value, key) ==
    Frame(IF key # NoKey THEN encrypt(T, value, key) ELSE Plain(serialize(T, value)))

\* The first size bytes of the payload.
Take(data, size) ==
    IF size = data.len THEN data
    ELSE IF data.kind = "bytes"
    THEN [data EXCEPT !.bytes = SubSeq(@, 1, size.w0), !.len = size, !.part = TRUE]
    ELSE [data EXCEPT !.len = size, !.part = TRUE]

\* Mutant of recv: a message that does not decrypt is deserialized as it is.
decode_lenient(T, buf, key) ==
    IF buf.kind = "bytes"
    THEN LET d == deserialize(T, buf.bytes) IN
         IF d.ok THEN [kind |-> "some", v |-> d.v] ELSE [kind |-> "none", v |-> <<>>]
    ELSE IF buf.part THEN [kind |-> "none", v |-> <<>>]
    ELSE IF buf.kind = "large" THEN [kind |-> "some", v |-> buf.of]
    ELSE LET d == deserialize(T, [i \in 1..Len(buf.bytes) |->
                                     IF i \in buf.altered THEN (buf.bytes[i] + 1) % 128
                                     ELSE buf.bytes[i]]) IN
         IF d.ok THEN [kind |-> "some", v |-> d.v] ELSE [kind |-> "none", v |-> <<>>]

\* recv after the two reads. With a key: EncryptedMessage::deserialize,
\* decrypt_owned and its bincode, each unwrapped. Without one:
\* bincode::deserialize(&buf).ok(); a strict prefix of an encoding and the
\* bytes of an encrypted message do not deserialize.
decode(T, buf, key) ==
    IF key # NoKey
    THEN IF ~Opens(buf, key) THEN [kind |-> "panic", v |-> <<>>]
         ELSE IF buf.kind = "large" THEN [kind |-> "some", v |-> buf.of]
         ELSE LET d == deserialize(T, buf.bytes) IN
              IF d.ok THEN [kind |-> "some", v |-> d.v]
              ELSE [kind |-> "panic", v |-> <<>>]
    ELSE IF buf.kind = "bytes"
         THEN LET d == deserialize(T, buf.bytes) IN
              IF d.ok THEN [kind |-> "some", v |-> d.v]
              ELSE [kind |-> "none", v |-> <<>>]
         ELSE IF buf.kind = "large" /\ ~buf.part /\ buf.key = NoKey
         THEN [kind |-> "some", v |-> buf.of]
         ELSE [kind |-> "none", v |-> <<>>]

\* AsyncTypedReader::recv / TypedReader::recv: read_exact of the size, then
\* of size bytes; either fails when the stream ends first.
typed_recv(T, wire, key) ==
    IF ~wire.hdrok \/ Less(wire.arrived, from_be_bytes(wire.hdr))
    THEN [kind |-> "err", v |-> <<>>]
    ELSE decode(T, Take(wire.data, from_be_bytes(wire.hdr)), key)

(* --------------------------------------------------------------- registry *)

\* Mutant of connect_user: the result of insert is not looked at.
connect_user_unchecked(username, d) ==
    [db |-> d \cup {username}, ok |-> TRUE]

\* connect_user: HashSet::insert, Some(AckConnect) iff the name was absent.
connect_user(username, d) ==
    IF username \notin d
    THEN [db |-> d \cup {username}, ok |-> TRUE]
    ELSE [db |-> d, ok |-> FALSE]

\* Mutant of String::is_empty: no nickname counts as empty.
is_empty_never(u) == FALSE

\* String::is_empty
is_empty(u) == u = ""

\* Mutant of disconnect_user: the name is removed whatever it is.
disconnect_user_always(username, d) == d \ {username}

\* disconnect_user
disconnect_user(username, d) ==
    IF ~is_empty(username) THEN d \ {username} ELSE d

(* --------------------------------------------------------- broadcast topic *)

Range(seq) == {seq[i] : i \in 1..Len(seq)}

\* Vec::retain(|v| v != identifier)
RECURSIVE retain(_, _)
retain(list, identifier) ==
    IF list = <<>> THEN <<>>
    ELSE IF Head(list) = identifier THEN retain(Tail(list), identifier)
    ELSE <<Head(list)>> \o retain(Tail(list), identifier)

\* Mutant of subscribe: the identity is not pushed on the list.
subscribe_unlisted(list, identity) ==
    [ok |-> ~(\E i \in 1..Len(list) : list[i] = identity), list |-> list]

\* Mutant of subscribe: an identity that is in the list is pushed again.
subscribe_again(list, identity) == [ok |-> TRUE, list |-> Append(list, identity)]

\* BroadcastSenderWithList::subscribe: None when the identity is in the list,
\* else the identity is pushed and a receiver is created.
subscribe(list, identity) ==
    IF \E i \in 1..Len(list) : list[i] = identity
    THEN [ok |-> FALSE, list |-> list]
    ELSE [ok |-> TRUE, list |-> Append(list, identity)]

\* A receiver of a room's topic: the session whose handler created it, the
\* room, its identifier, the events sent and not yet received, whether it
\* lagged behind the capacity, and whether its forwarding task is spawned.
Receiver(s, r, identity) ==
    [sess |-> s, room |-> r, ident |-> identity, q |-> <<>>,
     lagged |-> FALSE, spawned |-> FALSE]

\* Mutant of send: a receiver whose forwarding task is not yet spawned (the
\* one the joining handler holds) is passed over.
BroadcastSendSpawned(rs, r, ev) ==
    {IF t.room # r \/ ~t.spawned THEN t
     ELSE IF t.lagged \/ Len(t.q) >= TopicCapacity
          THEN [t EXCEPT !.lagged = TRUE, !.q = <<>>]
          ELSE [t EXCEPT !.q = Append(@, ev)] : t \in rs}

\* Mutant of send: the value is put in front of the values not yet received.
BroadcastSendFront(rs, r, ev) ==
    {IF t.room # r THEN t ELSE [t EXCEPT !.q = <<ev>> \o @] : t \in rs}

\* Mutant of send: while a receiver of the room holds capacity unread
\* values, the value is given to no receiver.
BroadcastSendStalled(rs, r, ev) ==
    IF \E t \in rs : t.room = r /\ Len(t.q) >= TopicCapacity THEN rs
    ELSE {IF t.room # r \/ t.lagged THEN t
          ELSE [t EXCEPT !.q = Append(@, ev)] : t \in rs}

\* broadcast::Sender::send: every receiver of the room gets the value; one
\* that already holds capacity unread values loses the oldest and lags.
BroadcastSend(rs, r, ev) ==
    {IF t.room # r THEN t
     ELSE IF t.lagged \/ Len(t.q) >= TopicCapacity
          THEN [t EXCEPT !.lagged = TRUE, !.q = <<>>]
          ELSE [t EXCEPT !.q = Append(@, ev)] : t \in rs}

(* ------------------------------------------------------------------ state *)

VARIABLES
    db,        \* DB: the set of connected nicknames
    chans,     \* DBChan: the room names that have a topic
    subs,      \* the subscriber list of each room's topic
    poisoned,  \* the mutex of DBChan is poisoned
    recvs,     \* the live BroadcastReceiverWithList values
    pc,        \* where each session task is
    user,      \* process: user
    channels,  \* process: channels
    jn,        \* JoinChan in progress: the room and the users snapshot
    combined,  \* process: combined is Some
    rkey,      \* typed_reader.shared_key
    wkey,      \* typed_writer.shared_key
    mbox,      \* the values queued in the session's mpsc channel
    out,       \* the frames written to the client, in order
    nreq,      \* request frames received so far, over all sessions
    limit,     \* the number of request frames of this run
    left,      \* history: the LeaveChan requests served, and whether the
               \* leaver's forwarding task has received its own UserDel since
    cl,        \* the shipped client of each connection: where its main is,
               \* the keys of its reader and writer, the frames it has
               \* written, how many frames it has read, and how far the
               \* session's reader is in the frame it is receiving
    ch         \* a typed channel on its own: the value handed to send, the
               \* bytes on the stream, and what recv returned

vars == <<db, chans, subs, poisoned, recvs, pc, user, channels, jn, combined,
          rkey, wkey, mbox, out, nreq, limit, left, cl, ch>>

NoJoin == [room |-> "", users |-> <<>>]

\* A typed channel nothing was sent on.
Idle == [phase |-> "idle"]

\* A client that has not started (mini-irc-mt-client main, before line 43).
NoClient == [pc |-> "start", rkey |-> NoKey, wkey |-> NoKey, sent |-> <<>>,
             got |-> 0, len |-> 0, skew |-> FALSE]

Start ==
    /\ db = {}
    /\ chans = {}
    /\ subs = [r \in Rooms |-> <<>>]
    /\ poisoned = FALSE
    /\ recvs = {}
    /\ pc = [s \in Sessions |-> "run"]
    /\ user = [s \in Sessions |-> ""]
    /\ channels = [s \in Sessions |-> <<>>]
    /\ jn = [s \in Sessions |-> NoJoin]
    /\ combined = [s \in Sessions |-> FALSE]
    /\ rkey = [s \in Sessions |-> NoKey]
    /\ wkey = [s \in Sessions |-> NoKey]
    /\ mbox = [s \in Sessions |-> <<>>]
    /\ out = [s \in Sessions |-> <<>>]
    /\ nreq = 0
    /\ left = {}
    /\ cl = [s \in Sessions |-> NoClient]
    /\ ch = Idle

Init == Start /\ limit = MaxRequests

\* Three sessions after the start of three clients: each has received
\* Connect with its own nickname; sessions 1 and 2 have then joined
\* "general", in that order, and every event of the two joins has been
\* written to its client; session 3 has joined no room.
Member(s) == [sess |-> s, room |-> "general", ident |-> Nick(s), q |-> <<>>,
              lagged |-> FALSE, spawned |-> TRUE]
PlainLog(rs) == [i \in 1..Len(rs) |-> send(rs[i], NoKey)]
InitTrio ==
    /\ db = {Nick(s) : s \in Sessions}
    /\ chans = {"general"}
    /\ subs = [r \in Rooms |-> IF r = "general" THEN <<Nick(1), Nick(2)>> ELSE <<>>]
    /\ poisoned = FALSE
    /\ recvs = {Member(1), Member(2)}
    /\ pc = [s \in Sessions |-> "run"]
    /\ user = [s \in Sessions |-> Nick(s)]
    /\ channels = [s \in Sessions |-> IF s = 3 THEN <<>> ELSE <<"general">>]
    /\ jn = [s \in Sessions |-> NoJoin]
    /\ combined = [s \in Sessions |-> FALSE]
    /\ rkey = [s \in Sessions |-> NoKey]
    /\ wkey = [s \in Sessions |-> NoKey]
    /\ mbox = [s \in Sessions |-> <<>>]
    /\ out = [s \in Sessions |->
                CASE s = 1 -> PlainLog(<<AckConnect, AckJoin("general", <<Nick(1)>>),
                                         Channel("UserAdd", Nick(1), 0, "general"),
                                         Channel("UserAdd", Nick(2), 0, "general")>>)
                  [] s = 2 -> PlainLog(<<AckConnect,
                                         AckJoin("general", <<Nick(1), Nick(2)>>),
                                         Channel("UserAdd", Nick(2), 0, "general")>>)
                  [] OTHER -> PlainLog(<<AckConnect>>)]
    /\ nreq = 0
    /\ left = {}
    /\ cl = [s \in Sessions |-> NoClient]
    /\ ch = Idle
    /\ limit = MaxTrioRequests

(* ------------------------------------------------------- session plumbing *)

\* The select loop is waiting and recv yields the request rq: the client
\* wrote rq, plain or under a key, and the frame decodes under the reader's key.
Receives(s, rq) ==
    /\ pc[s] = "run"
    /\ nreq < limit
    /\ \E e \in Encodings : recv(send(rq, e), rkey[s]) = [kind |-> "some", rq |-> rq]

\* Mutant of the write at the end of an iteration: the response goes in
\* front of what was written before.
ReplyFirst(s, r, key, ok, mb, n) ==
    /\ ok \/ nreq + n < limit
    /\ nreq' = nreq + n + (IF ok THEN 0 ELSE 1)
    /\ pc' = [pc EXCEPT ![s] = IF ok THEN "run" ELSE "td"]
    /\ out' = [out EXCEPT ![s] = IF ok THEN <<send(r, key)>> \o @ ELSE @]
    /\ mbox' = [mbox EXCEPT ![s] = IF ok THEN mb ELSE <<>>]

\* typed_writer.send(&r) at the end of an iteration that has received n
\* frames: the frame is written, or the write fails (one more event of the
\* transport) and the loop is left for the teardown.
Reply(s, r, key, ok, mb, n) ==
    /\ ok \/ nreq + n < limit
    /\ nreq' = nreq + n + (IF ok THEN 0 ELSE 1)
    /\ pc' = [pc EXCEPT ![s] = IF ok THEN "run" ELSE "td"]
    /\ out' = [out EXCEPT ![s] = IF ok THEN Append(@, send(r, key)) ELSE @]
    /\ mbox' = [mbox EXCEPT ![s] = IF ok THEN mb ELSE <<>>]

\* The session task panics in an iteration that has received n frames: the
\* mailbox receiver is dropped with the task.
Panic(s, n) ==
    /\ nreq' = nreq + n
    /\ pc' = [pc EXCEPT ![s] = "panicked"]
    /\ out' = out
    /\ mbox' = [mbox EXCEPT ![s] = <<>>]

\* The mailbox receiver rx of the session is alive.
RxOpen(s) == pc[s] \in {"run", "join2", "join3"}

\* History of the leaves: who asked to leave room, and done once the
\* forwarding task of who in room has received that UserDel and stopped.
Left(who, room, done) == [who |-> who, room |-> room, done |-> done]

\* Mutant of Drop: the list is left as it is.
DropListKeep(list, t) == list

\* Drop for BroadcastReceiverWithList: the identifier leaves the list.
DropList(list, t) == retain(list, t.ident)

(* ---------------------------------------------------------------- actions *)

\* Transport error or end of stream on read: drop(rx), drop(tx), break.
ReadError(s) ==
    /\ pc[s] = "run"
    /\ nreq < limit
    /\ \E f \in Frames : recv(f, rkey[s]).kind = "err"
    /\ pc' = [pc EXCEPT ![s] = "td"]
    /\ mbox' = [mbox EXCEPT ![s] = <<>>]
    /\ nreq' = nreq + 1
    /\ UNCHANGED <<db, chans, subs, poisoned, recvs, user, channels, jn,
                   combined, rkey, wkey, out, limit, left, cl, ch>>

\* recv returns Ok(None) (plaintext that does not deserialize): the second
\* unwrap of val.unwrap().unwrap() panics.
Malformed(s) ==
    /\ pc[s] = "run"
    /\ nreq < limit
    /\ \E e \in Encodings : recv(send(Garbage, e), rkey[s]).kind = "none"
    /\ Panic(s, 1)
    /\ UNCHANGED <<db, chans, subs, poisoned, recvs, user, channels, jn,
                   combined, rkey, wkey, limit, left, cl, ch>>

\* A frame that does not decrypt under the installed key: recv panics.
DecryptFail(s) ==
    /\ pc[s] = "run"
    /\ nreq < limit
    /\ \E f \in Frames : recv(f, rkey[s]).kind = "panic"
    /\ Panic(s, 1)
    /\ UNCHANGED <<db, chans, subs, poisoned, recvs, user, channels, jn,
                   combined, rkey, wkey, limit, left, cl, ch>>

\* Request::Secure(key): key.try_into().unwrap() panics unless 32 bytes.
Secure(s, pk, ok) ==
    /\ Receives(s, Rq("Secure", pk, 0))
    /\ IF pk = "pk32"
       THEN /\ combined' = [combined EXCEPT ![s] = TRUE]
            /\ Reply(s, SecureResp, wkey[s], ok, mbox[s], 1)
       ELSE /\ combined' = combined
            /\ Panic(s, 1)
    /\ UNCHANGED <<db, chans, subs, poisoned, recvs, user, channels, jn,
                   rkey, wkey, limit, left, cl, ch>>

\* Mutant of the Shared arm: combined is not tested.
SharedUnguarded(s, k, ok) ==
    /\ Receives(s, Rq("Shared", k, 0))
    /\ IF k \in Keys
       THEN /\ rkey' = [rkey EXCEPT ![s] = k]
            /\ wkey' = [wkey EXCEPT ![s] = k]
            /\ Reply(s, Ack, k, ok, mbox[s], 1)
       ELSE /\ UNCHANGED <<rkey, wkey>>
            /\ Panic(s, 1)
    /\ UNCHANGED <<db, chans, subs, poisoned, recvs, user, channels, jn,
                   combined, limit, left, cl, ch>>

\* Request::Shared(key): with a combined key the payload is decrypted
\* (unwrap) and installed on reader and writer; without one, an Error.
Shared(s, k, ok) ==
    /\ Receives(s, Rq("Shared", k, 0))
    /\ IF combined[s]
       THEN IF k \in Keys
            THEN /\ rkey' = [rkey EXCEPT ![s] = k]
                 /\ wkey' = [wkey EXCEPT ![s] = k]
                 /\ Reply(s, Ack, k, ok, mbox[s], 1)
            ELSE /\ UNCHANGED <<rkey, wkey>>
                 /\ Panic(s, 1)
       ELSE /\ UNCHANGED <<rkey, wkey>>
            /\ Reply(s, error("invalid"), wkey[s], ok, mbox[s], 1)
    /\ UNCHANGED <<db, chans, subs, poisoned, recvs, user, channels, jn,
                   combined, limit, left, cl, ch>>

\* Mutant of the Connect arm: a session without a key is refused.
ConnectKeyedOnly(s, username, ok) ==
    /\ Receives(s, Rq("Connect", username, 0))
    /\ LET res == IF wkey[s] = NoKey THEN [db |-> db, ok |-> FALSE]
                  ELSE connect_user(username, db) IN
       /\ db' = res.db
       /\ IF res.ok
          THEN /\ user' = [user EXCEPT ![s] = username]
               /\ Reply(s, AckConnect, wkey[s], ok, mbox[s], 1)
          ELSE /\ user' = user
               /\ Reply(s, error("Invalid username"), wkey[s], ok, mbox[s], 1)
    /\ UNCHANGED <<chans, subs, poisoned, recvs, channels, jn, combined,
                   rkey, wkey, limit, left, cl, ch>>

\* Request::Connect(username)
Connect(s, username, ok) ==
    /\ Receives(s, Rq("Connect", username, 0))
    /\ LET res == connect_user(username, db) IN
       /\ db' = res.db
       /\ IF res.ok
          THEN /\ user' = [user EXCEPT ![s] = username]
               /\ Reply(s, AckConnect, wkey[s], ok, mbox[s], 1)
          ELSE /\ user' = user
               /\ Reply(s, error("Invalid username"), wkey[s], ok, mbox[s], 1)
    /\ UNCHANGED <<chans, subs, poisoned, recvs, channels, jn, combined,
                   rkey, wkey, limit, left, cl, ch>>

\* add_user_to_chan: subscribe on the room's topic, created when absent.
add_user_to_chan(username, channel) ==
    subscribe(IF channel \in chans THEN subs[channel] ELSE <<>>, username)

\* Request::JoinChan(channel), up to the return of add_user_to_chan.
JoinChan(s, channel, ok) ==
    /\ Receives(s, Rq("JoinChan", channel, 0))
    /\ IF is_empty(user[s])
       THEN /\ Reply(s, error("Please connect first"), wkey[s], ok, mbox[s], 1)
            /\ UNCHANGED <<chans, subs, recvs, jn, left>>
       ELSE IF poisoned
       THEN /\ Panic(s, 1)
            /\ UNCHANGED <<chans, subs, recvs, jn, left>>
       ELSE LET res == add_user_to_chan(user[s], channel) IN
            IF res.ok
            THEN /\ chans' = chans \cup {channel}
                 /\ subs' = [subs EXCEPT ![channel] = res.list]
                 /\ recvs' = recvs \cup {Receiver(s, channel, user[s])}
                 /\ jn' = [jn EXCEPT ![s] = [room |-> channel, users |-> <<>>]]
                 /\ pc' = [pc EXCEPT ![s] = "join2"]
                 /\ nreq' = nreq + 1
                 /\ left' = left \ {Left(user[s], channel, d) : d \in BOOLEAN}
                 /\ UNCHANGED <<out, mbox>>
            ELSE /\ Reply(s, error("User already in channel"), wkey[s], ok, mbox[s], 1)
                 /\ UNCHANGED <<chans, subs, recvs, jn, left>>
    /\ UNCHANGED <<db, poisoned, user, channels, combined, rkey, wkey, limit, cl, ch>>

\* The receiver the JoinChan handler of s holds and has not yet moved into
\* its forwarding task.
Held(s) == {t \in recvs : t.sess = s /\ ~t.spawned}

\* let users = reciever.into_subscribers().clone()
JoinSnapshot(s) ==
    /\ pc[s] = "join2"
    /\ jn' = [jn EXCEPT ![s].users = subs[jn[s].room]]
    /\ pc' = [pc EXCEPT ![s] = "join3"]
    /\ UNCHANGED <<db, chans, subs, poisoned, recvs, user, channels, combined,
                   rkey, wkey, mbox, out, nreq, limit, left, cl, ch>>

\* Mutant of the JoinChan handler: it ends without writing AckJoin.
JoinPublishMute(s, ok) ==
    /\ pc[s] = "join3"
    /\ ~poisoned
    /\ recvs' = {IF t.sess = s /\ ~t.spawned
                 THEN [t EXCEPT !.spawned = TRUE] ELSE t :
                 t \in BroadcastSend(recvs, jn[s].room,
                           Channel("UserAdd", user[s], 0, jn[s].room))}
    /\ channels' = [channels EXCEPT ![s] = Append(@, jn[s].room)]
    /\ pc' = [pc EXCEPT ![s] = "run"]
    /\ jn' = [jn EXCEPT ![s] = NoJoin]
    /\ UNCHANGED <<db, chans, subs, poisoned, user, combined, rkey, wkey, mbox,
                   out, nreq, limit, left, cl, ch>>

\* The rest of the JoinChan handler: UserAdd is sent on the topic, the
\* forwarding task is spawned with the receiver, the room is pushed on
\* channels and AckJoin is written.  The lock().unwrap() panics when the
\* mutex is poisoned, and the held receiver is dropped by the unwinding.
JoinPublish(s, ok) ==
    /\ pc[s] = "join3"
    /\ IF poisoned
       THEN /\ Panic(s, 0)
            /\ recvs' = recvs \ Held(s)
            /\ subs' = [subs EXCEPT ![jn[s].room] = retain(@, user[s])]
            /\ channels' = channels
       ELSE /\ recvs' = {IF t.sess = s /\ ~t.spawned
                         THEN [t EXCEPT !.spawned = TRUE] ELSE t :
                         t \in BroadcastSend(recvs, jn[s].room,
                                   Channel("UserAdd", user[s], 0, jn[s].room))}
            /\ subs' = subs
            /\ channels' = [channels EXCEPT ![s] = Append(@, jn[s].room)]
            /\ Reply(s, AckJoin(jn[s].room, jn[s].users), wkey[s], ok, mbox[s], 0)
    /\ jn' = [jn EXCEPT ![s] = NoJoin]
    /\ UNCHANGED <<db, chans, poisoned, user, combined, rkey, wkey, limit, left, cl, ch>>

\* remove_user_from_chan: UserDel(username) is sent on the room's topic.
remove_user_from_chan(username, channel) ==
    BroadcastSend(recvs, channel, Channel("UserDel", username, 0, channel))

\* Request::LeaveChan(channel).  get_mut(&channel).unwrap() panics on a room
\* that has no topic, with the guard of the room map alive.
LeaveChan(s, channel, ok) ==
    /\ Receives(s, Rq("LeaveChan", channel, 0))
    /\ IF is_empty(user[s])
       THEN /\ Reply(s, error("Please connect first"), wkey[s], ok, mbox[s], 1)
            /\ UNCHANGED <<poisoned, recvs, left>>
       ELSE IF poisoned \/ channel \notin chans
       THEN /\ Panic(s, 1)
            /\ poisoned' = TRUE
            /\ UNCHANGED <<recvs, left>>
       ELSE /\ recvs' = remove_user_from_chan(user[s], channel)
            /\ poisoned' = poisoned
            /\ left' = IF Left(user[s], channel, TRUE) \in left THEN left
                        ELSE left \cup {Left(user[s], channel, FALSE)}
            /\ Reply(s, AckLeave(user[s]), wkey[s], ok, mbox[s], 1)
    /\ UNCHANGED <<db, chans, subs, user, channels, jn, combined, rkey, wkey, limit, cl, ch>>

\* message_to_chan
message_to_chan(username, channel, content) ==
    Channel("Message", username, content, channel)

\* Request::Message { to: Channel(channel), content }: the event is sent on
\* the topic and is also the response.
MessageChan(s, channel, ok) ==
    /\ Receives(s, Rq("MsgChan", channel, nreq + 1))
    /\ IF is_empty(user[s])
       THEN /\ Reply(s, error("Please connect first"), wkey[s], ok, mbox[s], 1)
            /\ UNCHANGED <<poisoned, recvs>>
       ELSE IF poisoned \/ channel \notin chans
       THEN /\ Panic(s, 1)
            /\ poisoned' = TRUE
            /\ recvs' = recvs
       ELSE LET mess == message_to_chan(user[s], channel, nreq + 1) IN
            /\ recvs' = BroadcastSend(recvs, channel, mess)
            /\ poisoned' = poisoned
            /\ Reply(s, mess, wkey[s], ok, mbox[s], 1)
    /\ UNCHANGED <<db, chans, subs, user, channels, jn, combined, rkey, wkey, limit, left, cl, ch>>

\* Request::Message { to: User(_), .. }: todo!() panics.
MessageUser(s, to) ==
    /\ Receives(s, Rq("MsgUser", to, 0))
    /\ Panic(s, 1)
    /\ UNCHANGED <<db, chans, subs, poisoned, recvs, user, channels, jn,
                   combined, rkey, wkey, limit, left, cl, ch>>

\* The mailbox branch of the select: a Message of the session's own nickname
\* is suppressed, any other Channel response is written.
Forwarded(mess, u) ==
    IF mess.t = "Channel" /\ mess.op = "Message" THEN mess.who # u
    ELSE mess.t = "Channel"

MailboxBranch(s, ok) ==
    /\ pc[s] = "run"
    /\ mbox[s] # <<>>
    /\ IF Forwarded(Head(mbox[s]), user[s])
       THEN Reply(s, Head(mbox[s]), wkey[s], ok, Tail(mbox[s]), 0)
       ELSE /\ mbox' = [mbox EXCEPT ![s] = Tail(@)]
            /\ UNCHANGED <<pc, out, nreq>>
    /\ UNCHANGED <<db, chans, subs, poisoned, recvs, user, channels, jn,
                   combined, rkey, wkey, limit, left, ch>>

\* The mailbox branch completes while typed_reader.recv() holds no part of
\* a frame: dropping that future loses nothing.
Mailbox(s, ok) == MailboxBranch(s, ok) /\ UNCHANGED cl

\* The forwarding task stops on this result of reciever.recv(): an Err (it
\* lagged) or the UserDel of its own identifier.
Detaches(t) ==
    \/ t.lagged
    \/ /\ t.q # <<>>
       /\ Head(t.q).op = "UserDel"
       /\ Head(t.q).who = t.ident

\* One iteration of a forwarding task: recv on the topic, then either break
\* (the receiver is dropped) or tx2.send into the mailbox, whose error after
\* the session dropped rx is ignored.
Forward(t) ==
    /\ t \in recvs
    /\ t.spawned
    /\ t.lagged \/ t.q # <<>>
    /\ IF Detaches(t)
       THEN /\ recvs' = recvs \ {t}
            /\ subs' = [subs EXCEPT ![t.room] = DropList(@, t)]
            /\ mbox' = mbox
            /\ left' = IF ~t.lagged /\ Left(t.ident, t.room, FALSE) \in left
                        THEN (left \ {Left(t.ident, t.room, FALSE)})
                             \cup {Left(t.ident, t.room, TRUE)}
                        ELSE left
       ELSE /\ RxOpen(t.sess) => Len(mbox[t.sess]) < MailboxCapacity
            /\ recvs' = (recvs \ {t}) \cup {[t EXCEPT !.q = Tail(@)]}
            /\ subs' = subs
            /\ mbox' = [mbox EXCEPT ![t.sess] =
                           IF RxOpen(t.sess) THEN Append(@, Head(t.q)) ELSE @]
            /\ left' = left
    /\ UNCHANGED <<db, chans, poisoned, pc, user, channels, jn, combined,
                   rkey, wkey, out, nreq, limit, cl, ch>>

\* After the loop: disconnect_user(user, db).
TeardownDisconnect(s) ==
    /\ pc[s] = "td"
    /\ db' = disconnect_user(user[s], db)
    /\ pc' = [pc EXCEPT ![s] = IF channels[s] = <<>> THEN "closed" ELSE "td2"]
    /\ UNCHANGED <<chans, subs, poisoned, recvs, user, channels, jn, combined,
                   rkey, wkey, mbox, out, nreq, limit, left, cl, ch>>

\* After the loop: remove_user_from_chan for the next room of channels; the
\* lock().unwrap() panics when the mutex is poisoned.
TeardownLeave(s) ==
    /\ pc[s] = "td2"
    /\ IF poisoned
       THEN /\ pc' = [pc EXCEPT ![s] = "tdpanicked"]
            /\ UNCHANGED <<recvs, channels>>
       ELSE /\ recvs' = remove_user_from_chan(user[s], Head(channels[s]))
            /\ channels' = [channels EXCEPT ![s] = Tail(@)]
            /\ pc' = [pc EXCEPT ![s] =
                         IF Tail(channels[s]) = <<>> THEN "closed" ELSE "td2"]
    /\ UNCHANGED <<db, chans, subs, poisoned, user, jn, combined, rkey, wkey,
                   mbox, out, nreq, limit, left, cl, ch>>

\* The requests of the handshake, and the frames only a keyed reader rejects.
Handshake(s, W) ==
    \/ DecryptFail(s)
    \/ \E pk \in {"pk32", "pkshort"}, ok \in W : Secure(s, pk, ok)
    \/ \E k \in Keys \cup {"undecryptable"}, ok \in W : Shared(s, k, ok)

\* The requests of the session engine and the steps of the session's tasks.
Engine(s, W) ==
    \/ ReadError(s)
    \/ Malformed(s)
    \/ \E n \in Names, ok \in W : Connect(s, n, ok)
    \/ \E r \in Rooms, ok \in W : JoinChan(s, r, ok)
    \/ JoinSnapshot(s)
    \/ \E ok \in W : JoinPublish(s, ok)
    \/ \E r \in Rooms, ok \in W : LeaveChan(s, r, ok)
    \/ \E r \in Rooms, ok \in W : MessageChan(s, r, ok)
    \/ \E n \in Nicknames : MessageUser(s, n)
    \/ \E ok \in W : Mailbox(s, ok)
    \/ \E t \in recvs : t.sess = s /\ Forward(t)
    \/ TeardownDisconnect(s)
    \/ TeardownLeave(s)

Next == \E s \in Pair : Handshake(s, BOOLEAN) \/ Engine(s, BOOLEAN)

NextTrio == \E s \in Sessions : Engine(s, {TRUE})

Spec == Init /\ [][Next]_vars
SpecTrio == InitTrio /\ [][NextTrio]_vars

\* The steps the runtime takes without any client: a spawned forwarding task
\* with a value to receive is polled, a session in its loop with a value in
\* its mailbox takes the mailbox branch (select picks among the ready
\* branches at random), a handler or a teardown that has started goes on.
\* Clients need not send anything: no request and no transport error is fair.
ForwardStep(s, r) == \E t \in recvs : t.sess = s /\ t.room = r /\ Forward(t)
Scheduling(S) ==
    \A s \in S :
        /\ \A r \in Rooms : WF_vars(ForwardStep(s, r))
        /\ WF_vars(Mailbox(s, TRUE))
        /\ WF_vars(JoinSnapshot(s))
        /\ WF_vars(JoinPublish(s, TRUE))
        /\ WF_vars(TeardownDisconnect(s))
        /\ WF_vars(TeardownLeave(s))
FairSpecTrio == SpecTrio /\ Scheduling(Sessions)

(* ------------------------------------------------------ the shipped client *)

\* Everything but cl: the client's steps leave the server alone.
server == <<db, chans, subs, poisoned, recvs, pc, user, channels, jn, combined,
            rkey, wkey, mbox, out, nreq, limit, left, ch>>

\* The next frame of the server the client of s has not read, decoded by
\* TypedReader::recv under the key of the client's reader.
Unread(s) == cl[s].got < Len(out[s])
ClientRecv(s) == recv(out[s][cl[s].got + 1], cl[s].rkey)

\* typed_tcp_tx.send: the frame is encoded under the key of the writer.
ClientSend(c, rq) == [c EXCEPT !.sent = Append(@, send(rq, c.wkey))]

\* main, lines 43-46: Secure(public key) is sent.
ClientSecure(s) ==
    /\ cl[s].pc = "start"
    /\ cl' = [cl EXCEPT ![s] = [ClientSend(@, Rq("Secure", "pk32", 0))
                                   EXCEPT !.pc = "hello"]]
    /\ UNCHANGED server

\* main, lines 47-53: the answer is received; recv()?.unwrap() panics on
\* None, anything but Response::Secure leaves public_key None.
ClientGetsSecure(s) ==
    /\ cl[s].pc = "hello"
    /\ Unread(s)
    /\ LET d == ClientRecv(s) IN
       cl' = [cl EXCEPT ![s].got = @ + 1,
                        ![s].pc = IF d.kind # "some" THEN "dead"
                                  ELSE IF d.rq.t = "Secure" THEN "keyed"
                                  ELSE "connect"]
    /\ UNCHANGED server

\* Mutant of lines 55-62: the key is not installed on the reader before
\* Shared is sent.
ClientSharedLate(s, k) ==
    /\ cl[s].pc = "keyed"
    /\ cl' = [cl EXCEPT ![s] = [ClientSend(@, Rq("Shared", k, 0))
                                   EXCEPT !.pc = "shared"]]
    /\ UNCHANGED server

\* main, lines 55-62: the shared key is generated, installed on the reader,
\* and sent in Shared by the writer.
ClientShared(s, k) ==
    /\ cl[s].pc = "keyed"
    /\ cl' = [cl EXCEPT ![s] = [ClientSend([@ EXCEPT !.rkey = k], Rq("Shared", k, 0))
                                   EXCEPT !.pc = "shared"]]
    /\ UNCHANGED server

\* Mutant of lines 63-64: the key is not installed on the writer.
ClientGetsAckUnkeyed(s) ==
    /\ cl[s].pc = "shared"
    /\ Unread(s)
    /\ cl' = [cl EXCEPT ![s].got = @ + 1, ![s].pc = "connect"]
    /\ UNCHANGED server

\* main, lines 63-64: the answer is received and dropped, then the key is
\* installed on the writer.
ClientGetsAck(s) ==
    /\ cl[s].pc = "shared"
    /\ Unread(s)
    /\ LET d == ClientRecv(s) IN
       cl' = [cl EXCEPT ![s].got = @ + 1,
                        ![s].wkey = IF d.kind = "panic" THEN @ ELSE cl[s].rkey,
                        ![s].pc = IF d.kind = "panic" THEN "dead" ELSE "connect"]
    /\ UNCHANGED server

\* main, line 66: Connect(nickname) is sent.
ClientConnect(s, n) ==
    /\ cl[s].pc = "connect"
    /\ cl' = [cl EXCEPT ![s] = [ClientSend(@, Rq("Connect", n, 0))
                                   EXCEPT !.pc = "connecting"]]
    /\ UNCHANGED server

\* main, lines 69-83: on AckConnect JoinChan("general") is sent, on
\* anything else main returns.
ClientGetsAnswer(s) ==
    /\ cl[s].pc = "connecting"
    /\ Unread(s)
    /\ LET d == ClientRecv(s)
           c == [cl[s] EXCEPT !.got = @ + 1] IN
       cl' = [cl EXCEPT ![s] =
                 IF d.kind = "panic" THEN [c EXCEPT !.pc = "dead"]
                 ELSE IF d.kind = "some" /\ d.rq.t = "AckConnect"
                 THEN [ClientSend(c, Rq("JoinChan", "general", 0))
                          EXCEPT !.pc = "reading"]
                 ELSE [c EXCEPT !.pc = "quit"]]
    /\ UNCHANGED server

\* main, lines 95-103: the reader thread receives until recv fails or
\* yields None.
ClientReads(s) ==
    /\ cl[s].pc = "reading"
    /\ Unread(s)
    /\ LET d == ClientRecv(s) IN
       cl' = [cl EXCEPT ![s].got = @ + 1,
                        ![s].pc = IF d.kind = "some" THEN "reading"
                                  ELSE IF d.kind = "panic" THEN "dead"
                                  ELSE "quit"]
    /\ UNCHANGED server

\* The number of frames of its client the session of s has received: one
\* for each direct response written, and the JoinChan being handled.
Consumed(s) ==
    Cardinality({i \in 1..Len(out[s]) : out[s][i].body.t # "Channel"})
    + (IF pc[s] \in {"join2", "join3"} THEN 1 ELSE 0)

\* The session of s has a frame of its client to read, and recv decodes it
\* under the key of the session's reader.
Pending(s) == pc[s] = "run" /\ Consumed(s) < Len(cl[s].sent)
ServerRecv(s) == recv(cl[s].sent[Consumed(s) + 1], rkey[s])
Takes(s, t) ==
    /\ Pending(s)
    /\ ~cl[s].skew
    /\ ServerRecv(s).kind = "some"
    /\ ServerRecv(s).rq.t = t

\* The session of s dispatches the next frame of its client.
ServerSecure(s) == Takes(s, "Secure") /\ Secure(s, ServerRecv(s).rq.a, TRUE)
ServerShared(s) == Takes(s, "Shared") /\ Shared(s, ServerRecv(s).rq.a, TRUE)
ServerConnect(s) == Takes(s, "Connect") /\ Connect(s, ServerRecv(s).rq.a, TRUE)
ServerJoinChan(s) == Takes(s, "JoinChan") /\ JoinChan(s, ServerRecv(s).rq.a, TRUE)

ClientStep(s) ==
    \/ ClientSecure(s)
    \/ ClientGetsSecure(s)
    \/ \E k \in Keys : ClientShared(s, k)
    \/ ClientGetsAck(s)
    \/ \E n \in Nicknames \ {"carol"} : ClientConnect(s, n)
    \/ ClientGetsAnswer(s)
    \/ ClientReads(s)

ServerStep(s) ==
    \/ ServerSecure(s)
    \/ ServerShared(s)
    \/ ServerConnect(s)
    \/ ServerJoinChan(s)
    \/ JoinSnapshot(s)
    \/ JoinPublish(s, TRUE)
    \/ Mailbox(s, TRUE)
    \/ \E r \in Rooms : ForwardStep(s, r)

\* Two shipped clients, each on its own connection, and their sessions.
InitShake == Start /\ limit = MaxShakeRequests
NextShake == \E s \in Pair : ClientStep(s) \/ ServerStep(s)
SpecShake == InitShake /\ [][NextShake]_vars

(* ------------------------------------------- frames that arrive in two parts *)

\* TypedWriter::send writes the length and the payload with two write_all
\* calls, and AsyncTypedReader::recv reads them with two read_exact calls: the
\* future of recv can hold the length of a frame whose payload is not there
\* yet. cl[s].len is the index of the frame whose length it has read.
MaxInput == 1
MaxSelectRequests == MaxShakeRequests + Cardinality(Pair) * MaxInput

HalfRead(s) == cl[s].len = Consumed(s) + 1

\* The user types "/join general": handle_user_input yields JoinChan and the
\* writer thread sends it.
ClientInput(s) ==
    /\ cl[s].pc = "reading"
    /\ Len(cl[s].sent) < 4 + MaxInput
    /\ cl' = [cl EXCEPT ![s] = ClientSend(@, Rq("JoinChan", "general", 0))]
    /\ UNCHANGED server

\* recv, first read_exact: the length of the next frame is read, then the
\* future waits for the payload.
ServerReadsLength(s) ==
    /\ Pending(s)
    /\ ~cl[s].skew
    /\ ~HalfRead(s)
    /\ cl' = [cl EXCEPT ![s].len = Consumed(s) + 1]
    /\ UNCHANGED server

\* The mailbox branch of the select completes: the future of recv is
\* dropped, and with it the length it had read; the next recv starts in the
\* middle of the frame.
MailboxSelect(s) ==
    /\ MailboxBranch(s, TRUE)
    /\ cl' = [cl EXCEPT ![s].skew = @ \/ HalfRead(s)]

\* recv after the length was lost: it takes payload bytes for a length and
\* waits for that many bytes (no step), or gets them and fails to decode:
\* val.unwrap().unwrap() on None, or expect/unwrap in recv under a key.
Skewed(s) ==
    /\ Pending(s)
    /\ cl[s].skew
    /\ nreq < limit
    /\ Panic(s, 1)
    /\ UNCHANGED <<db, chans, subs, poisoned, recvs, user, channels, jn,
                   combined, rkey, wkey, limit, left, cl, ch>>

SelectStep(s) ==
    \/ ServerReadsLength(s)
    \/ ServerJoinChan(s)
    \/ Skewed(s)
    \/ JoinSnapshot(s)
    \/ JoinPublish(s, TRUE)
    \/ MailboxSelect(s)
    \/ \E r \in Rooms : ForwardStep(s, r)

\* Two shipped clients after their handshakes and Connect: the first has
\* joined "general" and read every frame of its session, the second has
\* read AckConnect and sent its JoinChan; the users type from here on.
Keyed(s) == IF s = 1 THEN "k1" ELSE "k2"
Script(s) ==
    <<send(Rq("Secure", "pk32", 0), NoKey), send(Rq("Shared", Keyed(s), 0), NoKey),
      send(Rq("Connect", Nick(s), 0), Keyed(s)),
      send(Rq("JoinChan", "general", 0), Keyed(s))>>
Greeting(s) ==
    <<send(SecureResp, NoKey), send(Ack, Keyed(s)), send(AckConnect, Keyed(s))>>
Joined ==
    /\ db = {Nick(s) : s \in Pair}
    /\ chans = {"general"}
    /\ subs = [r \in Rooms |-> IF r = "general" THEN <<Nick(1)>> ELSE <<>>]
    /\ poisoned = FALSE
    /\ recvs = {[Receiver(1, "general", Nick(1)) EXCEPT !.spawned = TRUE]}
    /\ pc = [s \in Sessions |-> "run"]
    /\ user = [s \in Sessions |-> IF s \in Pair THEN Nick(s) ELSE ""]
    /\ channels = [s \in Sessions |-> IF s = 1 THEN <<"general">> ELSE <<>>]
    /\ jn = [s \in Sessions |-> NoJoin]
    /\ combined = [s \in Sessions |-> s \in Pair]
    /\ rkey = [s \in Sessions |-> IF s \in Pair THEN Keyed(s) ELSE NoKey]
    /\ wkey = [s \in Sessions |-> IF s \in Pair THEN Keyed(s) ELSE NoKey]
    /\ mbox = [s \in Sessions |-> <<>>]
    /\ out = [s \in Sessions |->
                CASE s = 1 -> Greeting(1) \o
                              <<send(AckJoin("general", <<Nick(1)>>), Keyed(1)),
                                send(Channel("UserAdd", Nick(1), 0, "general"),
                                     Keyed(1))>>
                  [] s = 2 -> Greeting(2)
                  [] OTHER -> <<>>]
    /\ nreq = 7
    /\ left = {}
    /\ ch = Idle
    /\ cl = [s \in Sessions |->
               IF s \in Pair
               THEN [pc |-> "reading", rkey |-> Keyed(s), wkey |-> Keyed(s),
                     sent |-> Script(s), got |-> Len(out[s]), len |-> 0,
                     skew |-> FALSE]
               ELSE NoClient]
InitSelect == Joined /\ limit = MaxSelectRequests
NextSelect == \E s \in Pair : ClientReads(s) \/ ClientInput(s) \/ SelectStep(s)
SpecSelect == InitSelect /\ [][NextSelect]_vars

\* select! without biased polls its branches in random order: a branch that
\* stays ready is taken. A payload whose length has arrived arrives, a
\* handler that has started goes on, a forwarding task with a value is polled.
SelectFairness(s) ==
    /\ WF_vars(ServerJoinChan(s))
    /\ WF_vars(MailboxSelect(s))
    /\ WF_vars(JoinSnapshot(s))
    /\ WF_vars(JoinPublish(s, TRUE))
    /\ \A r \in Rooms : WF_vars(ForwardStep(s, r))
FairSpecSelect == SpecSelect /\ \A s \in Pair : SelectFairness(s)

(* ------------------------------------------------------- a slow subscriber *)

\* alice, bob and carol have joined "general", in that order, and bob has
\* then sent LagBacklog Messages to it. alice's client stopped reading: her
\* session has taken no Message from its mailbox and stays suspended, her
\* forwarding task waits in tx2.send with the mailbox full, and her
\* receiver holds all but one of the values the topic can keep.
MaxLagRequests == 2
LagBacklog == TopicCapacity + MailboxCapacity - 1
Backlog(from, to) ==
    [i \in 1..(to - from + 1) |->
        message_to_chan(Nick(2), "general", from + i - 1)]
Arrival(s) == Channel("UserAdd", Nick(s), 0, "general")
InitLag ==
    /\ db = {Nick(s) : s \in Sessions}
    /\ chans = {"general"}
    /\ subs = [r \in Rooms |->
                 IF r = "general" THEN <<Nick(1), Nick(2), Nick(3)>> ELSE <<>>]
    /\ poisoned = FALSE
    /\ recvs = {[Member(1) EXCEPT !.q = Backlog(MailboxCapacity + 1, LagBacklog)],
                Member(2), Member(3)}
    /\ pc = [s \in Sessions |-> "run"]
    /\ user = [s \in Sessions |-> Nick(s)]
    /\ channels = [s \in Sessions |-> <<"general">>]
    /\ jn = [s \in Sessions |-> NoJoin]
    /\ combined = [s \in Sessions |-> FALSE]
    /\ rkey = [s \in Sessions |-> NoKey]
    /\ wkey = [s \in Sessions |-> NoKey]
    /\ mbox = [s \in Sessions |-> IF s = 1 THEN Backlog(1, MailboxCapacity) ELSE <<>>]
    /\ out = [s \in Sessions |->
                CASE s = 1 -> PlainLog(<<AckConnect, AckJoin("general", <<Nick(1)>>),
                                         Arrival(1), Arrival(2), Arrival(3)>>)
                  [] s = 2 -> PlainLog(<<AckConnect,
                                         AckJoin("general", <<Nick(1), Nick(2)>>),
                                         Arrival(2), Arrival(3)>>
                                       \o Backlog(1, LagBacklog))
                  [] OTHER -> PlainLog(<<AckConnect,
                                         AckJoin("general",
                                                 <<Nick(1), Nick(2), Nick(3)>>),
                                         Arrival(3)>>
                                       \o Backlog(1, LagBacklog))]
    /\ nreq = LagBacklog
    /\ left = {}
    /\ cl = [s \in Sessions |-> NoClient]
    /\ ch = Idle
    /\ limit = LagBacklog + MaxLagRequests

\* bob and carol go on sending Messages to the room; their sessions and
\* every forwarding task run.
NextLag ==
    \/ \E s \in Sessions \ {1} : MessageChan(s, "general", TRUE) \/ Mailbox(s, TRUE)
    \/ \E s \in Sessions : ForwardStep(s, "general")
SpecLag == InitLag /\ [][NextLag]_vars

(* ------------------------------------------------- a nickname used again *)

\* Session 1 has connected as alice, joined "general" and left it again; its
\* forwarding task has received its UserAdd and its UserDel and has ended,
\* and everything was written to the client. The other clients have sent
\* nothing yet. From here the clients send up to MaxReuseRequests requests
\* or transport events.
MaxReuseRequests == 3
InitReuse ==
    /\ db = {Nick(1)}
    /\ chans = {"general"}
    /\ subs = [r \in Rooms |-> <<>>]
    /\ poisoned = FALSE
    /\ recvs = {}
    /\ pc = [s \in Sessions |-> "run"]
    /\ user = [s \in Sessions |-> IF s = 1 THEN Nick(1) ELSE ""]
    /\ channels = [s \in Sessions |-> IF s = 1 THEN <<"general">> ELSE <<>>]
    /\ jn = [s \in Sessions |-> NoJoin]
    /\ combined = [s \in Sessions |-> FALSE]
    /\ rkey = [s \in Sessions |-> NoKey]
    /\ wkey = [s \in Sessions |-> NoKey]
    /\ mbox = [s \in Sessions |-> <<>>]
    /\ out = [s \in Sessions |->
                IF s = 1
                THEN PlainLog(<<AckConnect, AckJoin("general", <<Nick(1)>>),
                                AckLeave(Nick(1)),
                                Channel("UserAdd", Nick(1), 0, "general")>>)
                ELSE <<>>]
    /\ nreq = 0
    /\ left = {Left(Nick(1), "general", TRUE)}
    /\ cl = [s \in Sessions |-> NoClient]
    /\ ch = Idle
    /\ limit = MaxReuseRequests
NextReuse == \E s \in Pair : Engine(s, {TRUE})
SpecReuse == InitReuse /\ [][NextReuse]_vars

(* ------------------------------------------------- a typed channel alone *)

\* The values sent: every variant of Request and Response, with short
\* strings, byte vectors and lists in their fields.
Strs == {<<>>, <<97>>, <<97, 98>>}
ByteVecs == {<<>>, <<0>>, <<255, 1>>}
StrLists == {<<>>, <<<<97>>>>, <<<<97, 98>>, <<>>>>}
Recipients == {Value(t, <<a>>) : t \in {"User", "Channel"}, a \in Strs}
ChanOps ==
    {Value("Message", <<a, b>>) : a \in Strs, b \in Strs}
    \cup {Value(t, <<a>>) : t \in {"UserAdd", "UserDel"}, a \in Strs}
RequestValues ==
    {Value(t, <<a>>) : t \in {"Shared", "Secure"}, a \in ByteVecs}
    \cup {Value(t, <<a>>) : t \in {"Connect", "JoinChan", "LeaveChan"}, a \in Strs}
    \cup {Value("Message", <<to, a>>) : to \in Recipients, a \in Strs}
ResponseValues ==
    {Value("Ack", <<>>)}
    \cup {Value("Secure", <<a>>) : a \in ByteVecs}
    \cup {Value("DirectMessage", <<a, b>>) : a \in Strs, b \in Strs}
    \cup {Value(t, <<a>>) : t \in {"AckLeave", "AckConnect", "Error"}, a \in Strs}
ChannelValues == {Value("Channel", <<op, a>>) : op \in ChanOps, a \in Strs}
AckJoinValues == {Value("AckJoin", <<a, l>>) : a \in Strs, l \in StrLists}
Values ==
    <<[typ |-> "Request", of |-> RequestValues],
      [typ |-> "Response", of |-> ResponseValues],
      [typ |-> "Response", of |-> ChannelValues],
      [typ |-> "Response", of |-> AckJoinValues]>>

\* The lengths of the payloads whose bytes are not listed: 2^16, 2^32 - 1,
\* 2^32 and 2^32 + 41.
LargeLengths ==
    {[hi |-> 0, w1 |-> 1, w0 |-> 0], [hi |-> 0, w1 |-> 65535, w0 |-> 65535],
     [hi |-> 1, w1 |-> 0, w0 |-> 0], [hi |-> 1, w1 |-> 0, w0 |-> 41]}

\* Everything but ch: the irc sessions take no part here.
irc == <<db, chans, subs, poisoned, recvs, pc, user, channels, jn, combined,
         rkey, wkey, mbox, out, nreq, limit, left, cl>>

\* send(&value) on a writer with this key.
ChSend(T, value, key) ==
    /\ ch.phase = "idle"
    /\ ch' = [phase |-> "sent", typ |-> T, val |-> value, key |-> key,
              wire |-> typed_send(T, value, key), by |-> NoKey,
              res |-> [kind |-> "", v |-> <<>>]]
    /\ UNCHANGED irc

\* send of a Message whose content makes the payload len bytes long; the
\* bytes of the content are not listed.
LongMessage == Value("Message", <<Value("Channel", <<97>>), "long">>)
ChSendLarge(len, key) ==
    /\ ch.phase = "idle"
    /\ ch' = [phase |-> "sent", typ |-> "Request", val |-> LongMessage,
              key |-> key,
              wire |-> Frame(Payload("large", key, <<>>, LongMessage, len)),
              by |-> NoKey, res |-> [kind |-> "", v |-> <<>>]]
    /\ UNCHANGED irc

\* One byte of an encrypted payload is altered on the way.
ChAlter(i) ==
    /\ ch.phase = "sent"
    /\ ch.wire.data.kind = "sealed"
    /\ ch.wire.data.altered = {}
    /\ i <= NonceSize + Len(ch.wire.data.bytes) + TagSize
    /\ ch' = [ch EXCEPT !.wire.data.altered = {i}]
    /\ UNCHANGED irc

\* The stream ends before the frame is through: inside the length, or
\* after it with no byte of the payload.
ChClose(inside) ==
    /\ ch.phase = "sent"
    /\ ch.wire.hdrok /\ ch.wire.arrived = ch.wire.data.len
    /\ ch.wire.data.altered = {}
    /\ ch' = [ch EXCEPT !.wire.hdrok = ~inside, !.wire.arrived = Usize(0)]
    /\ UNCHANGED irc

\* recv() on a reader with this key.
ChRecv(key) ==
    /\ ch.phase = "sent"
    /\ ch' = [ch EXCEPT !.phase = "got", !.by = key,
                        !.res = typed_recv(ch.typ, ch.wire, key)]
    /\ UNCHANGED irc

MaxFrame == 70
InitCodec == Start /\ limit = 0
NextCodec ==
    \/ \E i \in 1..Len(Values), key \in Encodings :
           \E value \in Values[i].of : ChSend(Values[i].typ, value, key)
    \/ \E len \in LargeLengths, key \in Encodings : ChSendLarge(len, key)
    \/ \E i \in 1..MaxFrame : ChAlter(i)
    \/ \E inside \in BOOLEAN : ChClose(inside)
    \/ \E key \in Encodings : ChRecv(key)
SpecCodec == InitCodec /\ [][NextCodec]_vars

(* ----------------------------------------------------------- observations *)

Last(seq) == seq[Len(seq)]

\* The responses written to the client of s, in order.
Written(s) == [i \in 1..Len(out[s]) |-> out[s][i].body]

\* The iteration of s that ends in this step wrote the response r.
Answers(s, r) == out'[s] = Append(out[s], send(r, wkey'[s]))

\* The session task is in its loop (the connection is open).
Open(s) == pc[s] \in {"run", "join2", "join3"}

\* Session s holds the nickname n: it made n its user and has not run
\* disconnect_user since.
Holds(s, n) ==
    /\ n # ""
    /\ user[s] = n
    /\ pc[s] \in {"run", "join2", "join3", "td", "panicked"}

(* ------------------------------------------------------------------ claims *)

\* C1: no two sessions hold the same nickname at the same time; a Connect(n)
\* received while n is in the registry is answered with Error("Invalid
\* username"), changes neither the registry nor any session's nickname and
\* leaves the session in its loop; a Connect with a free nickname on an open
\* connection, also after such an Error, is answered with AckConnect and
\* makes the nickname the session's.
C1_Unique ==
    \A s \in Sessions, t \in Sessions, n \in Names \cup Nicknames :
        Holds(s, n) /\ Holds(t, n) => s = t
C1_Step ==
    \A s \in Sessions, n \in Names \cup Nicknames :
        Connect(s, n, TRUE) =>
            IF n \in db
            THEN /\ Answers(s, error("Invalid username"))
                 /\ db' = db
                 /\ user' = user
                 /\ Open(s)'
            ELSE /\ Answers(s, AckConnect)
                 /\ db' = db \cup {n}
                 /\ user'[s] = n
                 /\ Open(s)'
C1_ConnectUnique == [][C1_Unique' /\ C1_Step]_vars

\* C1 witness: a session was refused a taken nickname, then connected under
\* a free one on the same connection, while the other session holds the
\* nickname it was refused.
C1_Witness ==
    \E s \in Sessions, t \in Sessions, i \in 1..3 :
        /\ s # t
        /\ i < Len(out[s])
        /\ Written(s)[i] = error("Invalid username")
        /\ Written(s)[i + 1] = AckConnect
        /\ Holds(s, user[s])
        /\ Holds(t, user[t])

\* C2: a Message event is written at most once to any client (the content
\* of every Send is distinct here, so equal events are one message): once as
\* the direct response to its sender, once through the mailbox to every
\* other subscriber, and the sender's mailbox copy is suppressed.
C2_NeverTwice ==
    (\A t \in recvs : ~t.lagged) =>
        \A s \in Sessions : \A i \in 1..Len(out[s]), j \in 1..Len(out[s]) :
            /\ i < j
            /\ Written(s)[i].t = "Channel"
            /\ Written(s)[i].op = "Message"
            => Written(s)[i] # Written(s)[j]

\* The receiver of recvs that is t in the next state, and what it was sent.
Same(t, u) == u.sess = t.sess /\ u.room = t.room /\ u.ident = t.ident
Gets(t, ev) == \E u \in recvs' : Same(t, u) /\ u.q = Append(t.q, ev)
Keeps(t) == \E u \in recvs' : Same(t, u) /\ u.q = t.q

\* The UserAdd event of the join in progress in session s.
UserJoined(s) == Channel("UserAdd", user[s], 0, jn[s].room)

\* A forwarding task hands a UserAdd event to its session's mailbox, and the
\* mailbox branch writes a UserAdd event to the client, whatever its nickname.
C3_Passes ==
    /\ \A t \in recvs :
           /\ Forward(t)
           /\ ~t.lagged
           /\ Head(t.q).op = "UserAdd"
           /\ RxOpen(t.sess)
           => mbox'[t.sess] = Append(mbox[t.sess], Head(t.q))
    /\ \A s \in Sessions :
           /\ Mailbox(s, TRUE)
           /\ Head(mbox[s]).op = "UserAdd"
           => Answers(s, Head(mbox[s]))

\* C3 (as amended): a successful JoinChan(R) by N sends UserAdd(N) on R's
\* topic to every receiver of R, the joiner's own included (it was created by
\* add_user_to_chan before the send); the forwarding tasks and the mailbox
\* branch pass the event on, so the joiner's client is sent UserAdd(N) too.
C3_PublishesToAll ==
    [][/\ \A s \in Sessions :
              (\E ok \in BOOLEAN : JoinPublish(s, ok)) /\ ~poisoned
              => /\ Held(s) # {}
                 /\ \A t \in recvs : t.room = jn[s].room => Gets(t, UserJoined(s))
       /\ C3_Passes]_vars

\* C3 witness: the first member of a room has been written AckJoin and then
\* the UserAdd of its own join.
C3_Witness ==
    \E s \in Sessions, r \in Rooms :
        /\ user[s] # ""
        /\ Written(s) = <<AckConnect, AckJoin(r, <<user[s]>>),
                          Channel("UserAdd", user[s], 0, r)>>

\* C3 (as stated): a successful JoinChan(R) by N sends UserAdd(N) to the
\* receivers of the sessions already subscribed to R and not to the joiner's.
C3_NotToJoiner ==
    [][\A s \in Sessions :
           (\E ok \in BOOLEAN : JoinPublish(s, ok)) /\ ~poisoned
           => \A t \in recvs : t.room = jn[s].room =>
                  IF t \in Held(s) THEN Keeps(t) ELSE Gets(t, UserJoined(s))]_vars

\* C4 (as amended): the list of an AckJoin is the subscriber list of the room
\* read after the joiner was subscribed: subscribe appends the joiner to the
\* list, the snapshot is the list at that later moment and holds the joiner,
\* and AckJoin carries the snapshot; the first session to join a room is
\* listed alone in the room.
C4_ListHoldsJoiner ==
    [][\A s \in Sessions :
          /\ \A r \in Rooms :
                 (\E ok \in BOOLEAN : JoinChan(s, r, ok)) /\ pc'[s] = "join2"
                 => /\ subs'[r] = Append(subs[r], user[s])
                    /\ r \notin chans => subs'[r] = <<user[s]>>
          /\ JoinSnapshot(s)
                 => /\ jn'[s].users = subs[jn[s].room]
                    /\ user[s] \in Range(jn'[s].users)
          /\ JoinPublish(s, TRUE) /\ ~poisoned
                 => /\ Answers(s, AckJoin(jn[s].room, jn[s].users))
                    /\ user[s] \in Range(jn[s].users)]_vars

\* C4 witness: the first session to join a room was answered with a list
\* holding its own nickname, the second with the first's nickname and its own.
C4_Witness ==
    \E s \in Sessions, t \in Sessions, r \in Rooms :
        /\ s # t
        /\ Written(s) = <<AckConnect, AckJoin(r, <<user[s]>>)>>
        /\ Written(t) = <<AckConnect, AckJoin(r, <<user[s], user[t]>>)>>

\* C4 (as stated): the list of the AckJoin answering a successful JoinChan
\* does not contain the joiner.
C4_ListWithoutJoiner ==
    [][\A s \in Sessions :
           JoinPublish(s, TRUE) /\ ~poisoned
           => /\ Last(out'[s]).body.t = "AckJoin"
              /\ user[s] \notin Range(Last(out'[s]).body.users)]_vars

\* C5: the teardown that follows a closed transport of an authenticated
\* session removes its nickname from the registry and, for each room of its
\* channels, sends UserDel(nickname) to every other receiver of the room.
C5_TeardownPublishes ==
    [][\A s \in Sessions :
          /\ TeardownDisconnect(s) /\ user[s] # "" => user[s] \notin db'
          /\ TeardownLeave(s)
                 => \A t \in recvs :
                        t.room = Head(channels[s]) /\ t.sess # s
                        => Gets(t, Channel("UserDel", user[s], 0,
                                           Head(channels[s])))]_vars

\* C6: once N has been served LeaveChan(R) and the forwarding task of N in R
\* has received that UserDel(N), no AckJoin for R written afterwards to
\* another nickname lists N, until N joins R again.
C6_NoLeaverInAckJoin ==
    [][\A s \in Sessions :
           JoinPublish(s, TRUE) /\ ~poisoned
           => \A n \in Range(Last(out'[s]).body.users) :
                  n # user[s] => Left(n, jn[s].room, TRUE) \notin left]_vars

\* The texts of the Error responses of the server.
Errors == {error(m) : m \in {"invalid", "Invalid username", "Please connect first",
                             "User already in channel"}}

\* C7: a LeaveChan or a Message to a room that has no topic, from an
\* authenticated session, is answered with an Error and the session stays
\* in its loop.
C7_MissingRoomRecoverable ==
    [][\A s \in Sessions, r \in Rooms :
           /\ user[s] # ""
           /\ r \notin chans
           /\ ~poisoned
           /\ LeaveChan(s, r, TRUE) \/ MessageChan(s, r, TRUE)
           => /\ \E e \in Errors : Answers(s, e)
              /\ Open(s)']_vars

\* C8: a plaintext frame that does not deserialize does not end the
\* session: it stays in its loop with its nickname, its rooms and the
\* registry as they were.
C8_MalformedKeepsSession ==
    [][\A s \in Sessions :
           Malformed(s)
           => /\ Open(s)'
              /\ UNCHANGED <<db, user, channels, subs, recvs>>]_vars

\* A security error on session s: a frame that does not decrypt under the
\* installed key, a Secure whose key is not 32 bytes, a Shared that does not
\* decrypt under the combined key.
SecurityError(s) ==
    \/ DecryptFail(s)
    \/ \E ok \in BOOLEAN : Secure(s, "pkshort", ok)
    \/ combined[s] /\ \E ok \in BOOLEAN : Shared(s, "undecryptable", ok)

\* C9: a security error closes the connection and the session goes on to
\* its teardown (disconnect_user, then UserDel for each room of channels).
C9_SecurityErrorTeardown ==
    [][\A s \in Sessions :
           SecurityError(s) => ~Open(s)' /\ pc'[s] = "td"]_vars

\* C10: JoinChan, LeaveChan and a Message to a room received by a session
\* whose user is empty are answered with Error("Please connect first"),
\* leave the registry, the room map, the topics, their subscriber lists and
\* receivers and the session's channels as they were, and the session stays
\* in its loop.
C10_ConnectFirst ==
    [][\A s \in Sessions, r \in Rooms :
           /\ user[s] = ""
           /\ JoinChan(s, r, TRUE) \/ LeaveChan(s, r, TRUE) \/ MessageChan(s, r, TRUE)
           => /\ Answers(s, error("Please connect first"))
              /\ UNCHANGED <<db, chans, subs, recvs, poisoned, user, channels>>
              /\ Open(s)']_vars

\* C10 witness: a room has a subscriber, and a session without a nickname
\* was just answered "Please connect first" and is still in its loop.
C10_Witness ==
    \E s \in Sessions :
        /\ user[s] = ""
        /\ pc[s] = "run"
        /\ out[s] # <<>>
        /\ Last(Written(s)) = error("Please connect first")
        /\ \E t \in recvs : t.sess # s /\ t.spawned

\* Response::DirectMessage { from, content }
DirectMessage(from, content) == Resp("DirectMessage", "", "", from, content, "", <<>>)

\* C11: a Message to User(name) from an authenticated session is delivered
\* as DirectMessage{from: sender} to the session that holds name when one
\* does, is answered with an Error when none does, and the sending session
\* stays in its loop.
C11_DirectMessage ==
    [][\A s \in Sessions, n \in Nicknames :
           MessageUser(s, n) /\ user[s] # ""
           => /\ Open(s)'
              /\ IF \E u \in Sessions : Holds(u, n) /\ Open(u)
                 THEN \E u \in Sessions :
                          /\ Holds(u, n)
                          /\ \/ mbox'[u] = Append(mbox[u], DirectMessage(user[s], 0))
                             \/ Answers(u, DirectMessage(user[s], 0))
                 ELSE \E e \in Errors : Answers(s, e)]_vars

\* The position of the last AckJoin for room r written to s (0 when none),
\* and whether ev was written to s after position i.
LastAckJoin(s, r) ==
    LET I == {i \in 1..Len(out[s]) :
                 Written(s)[i].t = "AckJoin" /\ Written(s)[i].chan = r}
    IN IF I = {} THEN 0 ELSE CHOOSE i \in I : \A j \in I : j <= i
WrittenAfter(s, i, ev) == \E j \in (i + 1)..Len(out[s]) : Written(s)[j] = ev

\* Session u is a member of room r (its forwarding task runs, its connection
\* is open) since a join whose AckJoin listed n, and the subscription of n
\* to r has been removed since.
RemovedUnder(u, r, n) ==
    /\ pc[u] = "run"
    /\ \E t \in recvs : t.sess = u /\ t.room = r /\ t.spawned
    /\ LastAckJoin(u, r) > 0
    /\ n \in Range(Written(u)[LastAckJoin(u, r)].users)
    /\ n \notin Range(subs[r])

\* C12: when the subscription of N to R is removed while session u is a
\* member of R, u's client is sent UserDel(N) for R (or u's own connection
\* or subscription to R ends first).
C12_RemovalObserved ==
    \A u \in Sessions, r \in Rooms, n \in Nicknames :
        RemovedUnder(u, r, n)
        ~> \/ WrittenAfter(u, LastAckJoin(u, r), Channel("UserDel", n, 0, r))
           \/ pc[u] # "run"
           \/ ~\E t \in recvs : t.sess = u /\ t.room = r

\* seq with its last element removed.
Front(seq) == SubSeq(seq, 1, Len(seq) - 1)

\* The topic is a queue for each receiver: in any step a receiver's unread
\* values lose their head, gain one value at the tail, or stay, and the
\* receivers of one room that gain a value gain the same one.
C13_TopicFifo ==
    /\ \A t \in recvs, u \in recvs' :
           Same(t, u) /\ ~u.lagged
           => \/ u.q = t.q
              \/ t.q # <<>> /\ u.q = Tail(t.q)
              \/ u.q # <<>> /\ Front(u.q) = t.q
    /\ \A t \in recvs, u \in recvs' : \A v \in recvs, w \in recvs' :
           /\ Same(t, u) /\ Same(v, w) /\ t.room = v.room
           /\ Len(u.q) > Len(t.q) /\ Len(w.q) > Len(v.q)
           => Last(u.q) = Last(w.q)
    /\ \A u \in recvs' : (\A t \in recvs : ~Same(t, u)) => u.q = <<>>

\* The forwarding task moves the head of its receiver to the tail of the
\* mailbox, and the mailbox branch writes the head of the mailbox next.
C13_TaskAndMailboxFifo ==
    /\ \A t \in recvs :
           Forward(t) /\ ~Detaches(t) /\ RxOpen(t.sess)
           => /\ mbox'[t.sess] = Append(mbox[t.sess], Head(t.q))
              /\ \E u \in recvs' : Same(t, u) /\ u.q = Tail(t.q)
    /\ \A s \in Sessions :
           /\ \/ mbox'[s] = mbox[s]
              \/ mbox'[s] = <<>>
              \/ mbox[s] # <<>> /\ mbox'[s] = Tail(mbox[s])
              \/ mbox'[s] # <<>> /\ Front(mbox'[s]) = mbox[s]
           /\ \/ out'[s] = out[s]
              \/ out'[s] # <<>> /\ Front(out'[s]) = out[s]
           /\ Mailbox(s, TRUE) /\ Forwarded(Head(mbox[s]), user[s])
              => /\ Answers(s, Head(mbox[s]))
                 /\ mbox'[s] = Tail(mbox[s])

\* C13 (as amended): the events of a room reach a subscriber's client
\* through its subscription in publication order: the topic, the forwarding
\* task and the mailbox are queues and the mailbox branch writes in mailbox
\* order.  (A Message is written to its sender as the direct response, at
\* once, whatever is still queued for that session.)
C13_PipelineOrder == [][C13_TopicFifo /\ C13_TaskAndMailboxFifo]_vars

\* The Messages of room r written to session s are in publication order
\* (the content of a Message is the number of its Send in the run).
InOrder(s, r) ==
    \A i \in 1..Len(out[s]), j \in 1..Len(out[s]) :
        /\ i < j
        /\ Written(s)[i].op = "Message" /\ Written(s)[i].chan = r
        /\ Written(s)[j].op = "Message" /\ Written(s)[j].chan = r
        => Written(s)[i].content <= Written(s)[j].content

\* C13 witness: a client was written two Messages of one room, both through
\* its subscription, in the order they were published.
C13_Witness ==
    \E s \in Sessions, i \in 1..6 :
        /\ i < Len(out[s])
        /\ Written(s)[i].op = "Message"
        /\ Written(s)[i + 1].op = "Message"
        /\ Written(s)[i].chan = Written(s)[i + 1].chan
        /\ Written(s)[i].content < Written(s)[i + 1].content
        /\ Written(s)[i].who # user[s]
        /\ Written(s)[i + 1].who # user[s]
        /\ user[s] # ""

\* C13 (as stated): every subscriber's client that is sent two events of a
\* room is sent them in publication order.
C13_PublicationOrder == \A s \in Sessions, r \in Rooms : InOrder(s, r)

\* C14 (as amended): a Secure whose key is not 32 bytes and a Shared that
\* does not decrypt under the combined key end the session (its task
\* panics); a Shared received while combined is None is answered with
\* Error("invalid"), installs no key, and the session stays in its loop.
C14_HandshakeFailures ==
    [][\A s \in Sessions :
          /\ (\E ok \in BOOLEAN : Secure(s, "pkshort", ok)) => ~Open(s)'
          /\ (\E ok \in BOOLEAN : Shared(s, "undecryptable", ok)) /\ combined[s]
                 => ~Open(s)'
          /\ \A k \in Keys \cup {"undecryptable"} :
                 Shared(s, k, TRUE) /\ ~combined[s]
                 => /\ Answers(s, error("invalid"))
                    /\ Open(s)'
                    /\ UNCHANGED <<rkey, wkey, combined>>]_vars

\* C14 witness: one session was answered Error("invalid") to its Shared and
\* is in its loop, without a key; another, which had a combined key, has
\* been ended by a failing handshake step.
C14_Witness ==
    \E s \in Sessions, t \in Sessions :
        /\ Written(s) = <<error("invalid")>>
        /\ pc[s] = "run" /\ rkey[s] = NoKey /\ wkey[s] = NoKey
        /\ Written(t) = <<SecureResp>>
        /\ pc[t] = "panicked" /\ rkey[t] = NoKey

\* C14 (as stated): each failing handshake step, a Shared received while
\* combined is None included, ends the session.
C14_FailureTerminates ==
    [][\A s \in Sessions :
          /\ (\E ok \in BOOLEAN : Secure(s, "pkshort", ok)) => ~Open(s)'
          /\ (\E ok \in BOOLEAN : Shared(s, "undecryptable", ok)) /\ combined[s]
                 => ~Open(s)'
          /\ \A k \in Keys \cup {"undecryptable"} :
                 (\E ok \in BOOLEAN : Shared(s, k, ok)) /\ ~combined[s]
                 => ~Open(s)']_vars

\* Session s has received no request yet.
First(s) == pc[s] = "run" /\ out[s] = <<>> /\ user[s] = "" /\ ~combined[s]

\* A session that has processed no Secure has no key and every frame
\* written to its client is plaintext.
Plaintext(s) ==
    ~combined[s] =>
        /\ rkey[s] = NoKey /\ wkey[s] = NoKey
        /\ \A i \in 1..Len(out[s]) : out[s][i].enc = NoKey

\* C15: the handshake is optional.  A first request Connect with a free
\* nickname is answered AckConnect in plaintext and the session stays
\* plaintext in both directions as long as it processes no Secure; a first
\* request Secure is answered with the server's Secure in plaintext; and
\* Connect is dispatched in the same way with or without a key: the answer
\* and the registry depend on the registry only, the keys are left alone.
C15_HandshakeOptional ==
    [][\A s \in Sessions :
          /\ Plaintext(s)'
          /\ \A n \in Names :
                 Connect(s, n, TRUE)
                 => /\ Answers(s, IF n \in db THEN error("Invalid username")
                                  ELSE AckConnect)
                    /\ db' = db \cup {n}
                    /\ n \notin db => user'[s] = n
                    /\ UNCHANGED <<rkey, wkey, combined>>
                    /\ First(s) /\ n \notin db
                           => out'[s] = <<send(AckConnect, NoKey)>>
          /\ First(s) /\ Secure(s, "pk32", TRUE)
                 => /\ out'[s] = <<send(SecureResp, NoKey)>>
                    /\ combined'[s]
                    /\ Open(s)']_vars

\* C15 witness: one session connected first and was served in plaintext,
\* another began with Secure, was answered Secure, and then connected.
C15_Witness ==
    \E s \in Sessions, t \in Sessions, r \in Rooms :
        /\ out[s] = <<send(AckConnect, NoKey),
                      send(AckJoin(r, <<user[s]>>), NoKey)>>
        /\ user[s] # ""
        /\ out[t] = <<send(SecureResp, NoKey), send(AckConnect, NoKey)>>
        /\ user[t] # "" /\ combined[t]

\* C16 (as amended): the session of the server has its key on reader and
\* writer or on neither, in every state; the shipped client has too, except
\* from the moment it sends Shared until it has received the answer: there
\* its reader is keyed and its writer is still plaintext.
C16_KeyedSides ==
    \A s \in Sessions :
        /\ rkey[s] = wkey[s]
        /\ IF cl[s].pc = "shared"
           THEN cl[s].rkey \in Keys /\ cl[s].wkey = NoKey
           ELSE cl[s].rkey = cl[s].wkey

\* C16 witness: the client has sent Shared and waits for the answer, with
\* its reader keyed and its writer plaintext, and the session has installed
\* the same key on both directions and written Ack under it.
C16_Witness ==
    \E s \in Sessions :
        /\ cl[s].pc = "shared"
        /\ cl[s].rkey \in Keys
        /\ rkey[s] = cl[s].rkey /\ wkey[s] = cl[s].rkey
        /\ out[s] = <<send(SecureResp, NoKey), send(Ack, cl[s].rkey)>>

\* C16 (as stated): on both sides of a connection the key is on the reader
\* and the writer or on neither, wherever a frame is sent or received.
C16_NeverAsymmetric ==
    \A s \in Sessions : rkey[s] = wkey[s] /\ cl[s].rkey = cl[s].wkey

\* C17: between the shipped client and the server, the frame a side is about
\* to decode was encoded in the mode, and under the key, of that side's
\* reader, so it decodes to what was sent; and every frame after the Ack,
\* in both directions, is encrypted under the key the client generated.
C17_SameMode ==
    \A s \in Sessions :
        /\ Pending(s)
           => LET f == cl[s].sent[Consumed(s) + 1] IN
              /\ f.enc = rkey[s]
              /\ ServerRecv(s) = [kind |-> "some", rq |-> f.body]
        /\ Unread(s)
           => LET g == out[s][cl[s].got + 1] IN
              /\ g.enc = cl[s].rkey
              /\ ClientRecv(s) = [kind |-> "some", rq |-> g.body]
        /\ \A i \in 3..Len(cl[s].sent) :
               cl[s].sent[i].enc \in Keys /\ cl[s].sent[i].enc = cl[s].rkey
        /\ \A i \in 3..Len(out[s]) :
               out[s][i].enc \in Keys /\ out[s][i].enc = cl[s].rkey

\* C17 witness: a client has completed the handshake, connected and joined,
\* and has read AckConnect, AckJoin and a room event, all under its key.
C17_Witness ==
    \E s \in Sessions :
        /\ cl[s].pc = "reading"
        /\ Len(cl[s].sent) = 4
        /\ Len(out[s]) >= 5
        /\ cl[s].got = Len(out[s])
        /\ out[s][2] = send(Ack, cl[s].rkey)
        /\ out[s][5].body.t = "Channel"

\* The transport of session s is closed: its select loop has been left (by a
\* break or by a panic of the session task) and its socket is dropped.
Closed(s) == ~Open(s)

\* C18: once the transport of a session is closed, each of its forwarding
\* tasks eventually stops and drops its receiver (which removes the
\* session's nickname from the subscriber list of the room).
C18_ForwardingEnds ==
    \A s \in Sessions :
        Closed(s) ~> ~\E t \in recvs : t.sess = s

\* The events a room of two clients carries.
JoinEvents == {Channel("UserAdd", n, 0, "general") : n \in Nicknames}

\* C19: an event at the head of the mailbox of a session in its loop is
\* eventually written to the client, and a frame the client has sent is
\* eventually dispatched, whatever arrives at the other source meanwhile.
C19_SelectFair ==
    \A s \in Pair :
        /\ \A ev \in JoinEvents :
               (pc[s] = "run" /\ mbox[s] # <<>> /\ Head(mbox[s]) = ev)
               ~> (Closed(s) \/ (out[s] # <<>> /\ Last(Written(s)) = ev))
        /\ \A k \in 0..(3 + MaxInput) :
               (Consumed(s) = k /\ Len(cl[s].sent) > k) ~> Consumed(s) > k

\* The Messages of other nicknames in seq, the contents session p has
\* published (each Message is the direct response to its sender), and the
\* Messages of others on their way to the client of receiver t: written,
\* in the mailbox, unread in the topic.
Others(seq, s) ==
    SelectSeq(seq, LAMBDA e : e.t = "Channel" /\ e.op = "Message" /\ e.who # user[s])
Said(p) ==
    {Written(p)[i].content :
        i \in {j \in 1..Len(out[p]) :
                  Written(p)[j].op = "Message" /\ Written(p)[j].who = user[p]}}
Pipe(t) ==
    Others(Written(t.sess), t.sess) \o Others(mbox[t.sess], t.sess)
        \o Others(t.q, t.sess)

\* Every receiver that has not lagged carries every Message the other
\* sessions have published, once, in publication order.
C20_OthersGetAll ==
    \A t \in recvs :
        ~t.lagged
        => LET P == Pipe(t) IN
           /\ \A i \in 1..(Len(P) - 1) : P[i].content < P[i + 1].content
           /\ {P[i].content : i \in 1..Len(P)}
                  = UNION {Said(p) : p \in Sessions \ {t.sess}}

\* A session in its loop can publish while a receiver of the room holds
\* capacity unread values or has lagged.
C20_NeverBlocked ==
    \A p \in Sessions :
        /\ pc[p] = "run" /\ nreq < limit
        /\ \E t \in recvs :
               t.room = "general" /\ (t.lagged \/ Len(t.q) >= TopicCapacity)
        => ENABLED MessageChan(p, "general", TRUE)

\* The step in which a receiver lags is a publication that is answered to
\* its publisher, which goes on; the session of the receiver is untouched.
C20_LagStep ==
    \A t \in recvs, u \in recvs' :
        Same(t, u) /\ ~t.lagged /\ u.lagged
        => /\ \E p \in Sessions :
                  /\ Answers(p, message_to_chan(user[p], t.room, nreq + 1))
                  /\ pc'[p] = "run"
           /\ pc'[t.sess] = pc[t.sess]
           /\ mbox'[t.sess] = mbox[t.sess]
           /\ subs' = subs

\* The step in which a lagged receiver goes removes it and its identifier
\* from the list of its room, and nothing else.
C20_DropStep ==
    \A t \in recvs :
        t.lagged /\ t \notin recvs'
        => /\ recvs' = recvs \ {t}
           /\ subs' = [subs EXCEPT ![t.room] = retain(@, t.ident)]
           /\ UNCHANGED <<db, chans, poisoned, pc, user, channels, mbox, out>>

\* C20: a subscriber that falls behind the capacity of the topic loses
\* events and its subscription, and nothing else: publishers are neither
\* blocked nor failed, and every other subscriber gets every published
\* event once and in order.
C20_LagIsLocal ==
    [][/\ C20_NeverBlocked
       /\ C20_LagStep
       /\ C20_DropStep
       /\ C20_OthersGetAll
       /\ C20_OthersGetAll']_vars

\* C20 witness: alice's receiver lagged and is gone, her session is still
\* in its loop, and carol's client has been written the Message that made
\* alice lag.
C20_Witness ==
    /\ pc[1] = "run"
    /\ Nick(1) \notin Range(subs["general"])
    /\ \A t \in recvs : t.sess # 1
    /\ \E i \in 1..Len(out[3]) :
           Written(3)[i].op = "Message" /\ Written(3)[i].content = LagBacklog + 2

\* The nickname of session s is in the subscriber list of room r.
Listed(s, r) == r \in chans /\ user[s] \in Range(subs[r])

Intact(w) == w.hdrok /\ w.arrived = w.data.len /\ w.data.altered = {}
SameValue(a, b) == a.tag = b.tag /\ a.fields = b.fields
Returned(v) == ch.res.kind = "some" /\ SameValue(ch.res.v, v)
C22_RoundTrip ==
    /\ ch.phase = "got" /\ ch.key = NoKey /\ ch.by = NoKey
    /\ Intact(ch.wire) /\ ch.wire.data.kind = "bytes"
    => /\ Returned(ch.val)
       /\ from_be_bytes(ch.wire.hdr) = Usize(Len(serialize(ch.typ, ch.val)))
       /\ ch.wire.data.bytes = serialize(ch.typ, ch.val)
C22_Witness ==
    /\ ch.phase = "got" /\ ch.key = NoKey /\ ch.by = NoKey /\ Intact(ch.wire)
    /\ ch.typ = "Response" /\ ch.val.tag = "Channel"
    /\ ch.val.fields[1].tag = "Message"
    /\ ch.val.fields = <<Value("Message", <<<<97>>, <<97, 98>>>>), <<97>>>>
    /\ Returned(ch.val)
\* C23: a value sent under a key and read under the same key from the whole
\* frame is the value that was sent; when a byte of the encrypted payload
\* (nonce, ciphertext or tag) was altered on the way, recv does not return:
\* no value, the original or another, is accepted.
Sealed ==
    /\ ch.phase = "got" /\ ch.key # NoKey /\ ch.by = ch.key
    /\ ch.wire.hdrok /\ ch.wire.arrived = ch.wire.data.len
    /\ ch.wire.data.kind = "sealed"
C23_SealedRoundTrip ==
    Sealed => IF ch.wire.data.altered = {}
              THEN Returned(ch.val) /\ ch.wire.data.bytes = serialize(ch.typ, ch.val)
              ELSE ch.res.kind = "panic"
C23_Witness ==
    /\ Sealed /\ ch.typ = "Request" /\ ch.val.tag = "Message"
    /\ ch.wire.data.altered = {NonceSize + 1}
    /\ ch.res.kind = "panic"

\* C24: the length in front of a written frame is the number of bytes of
\* its payload, whatever that number is, and recv on it returns the whole
\* value or an error of the transport, never the result of decoding a part
\* of the payload.
C24_ExactLength ==
    ch.phase = "got" /\ ch.wire.data.altered = {} /\ ch.by = ch.key
    => /\ from_be_bytes(ch.wire.hdr) = ch.wire.data.len
       /\ \/ ch.res.kind = "err"
          \/ ch.res.kind = "some" /\ ~Take(ch.wire.data, from_be_bytes(ch.wire.hdr)).part

\* C25: the step of the teardown that calls disconnect_user takes the
\* session's nickname out of the registry and nothing else; calling it again
\* on the result changes nothing; and with the empty nickname the registry
\* stays as it is, the empty name included when it is registered.
C25_Disconnect ==
    [][\A s \in Sessions :
           pc[s] = "td" /\ pc'[s] # "td"
           => /\ user[s] # "" => user[s] \notin db' /\ db' = db \ {user[s]}
              /\ user[s] = "" => db' = db
              /\ disconnect_user(user[s], db') = db']_vars
C25_Witness ==
    \E s, t \in Sessions :
        /\ pc[s] = "closed" /\ user[s] = "alice" /\ "alice" \notin db
        /\ pc[t] = "closed" /\ user[t] = "" /\ "" \in db

\* C26: when the forwarding task of session s for room r stops on the
\* UserDel of its own nickname, r is no longer among the rooms s has joined;
\* and the teardown of s publishes UserDel only for a room to whose topic s
\* still holds a receiver.
Subscribed(s, r) == \E t \in recvs : t.sess = s /\ t.room = r
C26_JoinedWhileSubscribed ==
    [][/\ \A t \in recvs :
              /\ t.spawned /\ ~t.lagged /\ Detaches(t) /\ Forward(t)
              /\ pc[t.sess] = "run"
              => t.room \notin Range(channels'[t.sess])
       /\ \A s \in Sessions :
              pc[s] = "td2" /\ ~poisoned /\ TeardownLeave(s)
              => Subscribed(s, Head(channels[s]))]_vars

\* C28: the UserDel a teardown publishes for a room reaches the receiver of
\* no other session under the nickname it names, so that the forwarding task
\* of a later session with that nickname never stops on it.
C28_TeardownSparesOthers ==
    [][\A s \in Sessions :
           pc[s] = "td2" /\ ~poisoned /\ TeardownLeave(s)
           => \A t \in recvs :
                  t.room = Head(channels[s]) /\ t.ident = user[s] /\ ~t.lagged
                  => t.sess = s]_vars
\* C29: a JoinChan of a connected session and the teardown of a session,
\* neither of which names a room that is missing from the map, complete
\* whatever the other sessions have sent before: the handler does not panic.
C29_OthersUnharmed ==
    [][\A t \in Sessions :
           /\ \A r \in Rooms :
                  /\ pc[t] = "run" /\ user[t] # ""
                  /\ \E ok \in BOOLEAN : JoinChan(t, r, ok)
                  => pc'[t] # "panicked"
           /\ pc[t] = "td2" /\ TeardownLeave(t) => pc'[t] # "tdpanicked"]_vars

\* C30: a nickname is in the registry exactly when one session that has not
\* yet run disconnect_user holds it as its user; and when every session that
\* clients used is over, the registry is empty.
Live(s) == Open(s) \/ pc[s] = "td"
C30_RegistryAgrees ==
    /\ \A n \in Names \ {""} :
           n \in db <=> Cardinality({s \in Sessions : Live(s) /\ user[s] = n}) = 1
    /\ (\A s \in Pair : ~Live(s)) => db = {}

\* C31: the reader of a session is never in the middle of a frame without
\* the length it has read of it: what recv consumed before the mailbox
\* branch was taken is still there for the next recv, and no frame of the
\* client ends in a panic of the session instead of its dispatch.
C31_ReaderAligned ==
    \A s \in Pair : ~cl[s].skew /\ (pc[s] = "panicked" => ~Pending(s))

\* The members of room r as the client of s knows them: the list of the
\* last AckJoin for r written to s, with the names of the UserAdd events
\* written since and without those of the UserDel events.
View(s, r) ==
    LET a == LastAckJoin(s, r)
        E(n) == {j \in (a + 1)..Len(out[s]) :
                    /\ Written(s)[j].t = "Channel" /\ Written(s)[j].chan = r
                    /\ Written(s)[j].op \in {"UserAdd", "UserDel"}
                    /\ Written(s)[j].who = n}
    IN IF a = 0 THEN {}
       ELSE {n \in Nicknames :
                IF E(n) = {} THEN n \in Range(Written(s)[a].users)
                ELSE Written(s)[CHOOSE j \in E(n) : \A k \in E(n) : k <= j].op
                     = "UserAdd"}

\* C32: a nickname the client of s holds as a member of r and whose
\* subscription to r is gone leaves the client's view: UserDel for it is
\* written to s, unless s itself stops being a member first.
C32_ViewConverges ==
    \A s \in Sessions, r \in Rooms, n \in Nicknames :
        (/\ pc[s] = "run"
         /\ \E t \in recvs : t.sess = s /\ t.room = r /\ t.spawned
         /\ n \in View(s, r) /\ n \notin Range(subs[r]))
        ~> \/ n \notin View(s, r)
           \/ pc[s] # "run"
           \/ ~Subscribed(s, r)

\* C33: a Message is sent on the topic of room r only for a session whose
\* nickname is in the subscriber list of r: a Message request of a session
\* that is not a member of r reaches the receiver of no member.
C33_MembersOnly ==
    [][\A s \in Sessions, r \in Rooms :
           /\ pc[s] = "run" /\ user[s] # "" /\ ~poisoned /\ r \in chans
           /\ user[s] \notin Range(subs[r])
           /\ \E ok \in BOOLEAN : MessageChan(s, r, ok)
           => recvs' = recvs]_vars

\* C34: the client of a member of room r is written UserDel(n) for r at
\* most once for each time n joined: between two UserDel(n) written to it
\* there is the UserAdd(n) of a new join (or an AckJoin of its own new join
\* to r, in whose list it learnt of n again).
C34_OneUserLeftPerJoin ==
    \A u \in Sessions, r \in Rooms, n \in Nicknames :
        \A i, j \in 1..Len(out[u]) :
            /\ i < j
            /\ Written(u)[i] = Channel("UserDel", n, 0, r)
            /\ Written(u)[j] = Channel("UserDel", n, 0, r)
            => \E k \in (i + 1)..(j - 1) :
                   \/ Written(u)[k] = Channel("UserAdd", n, 0, r)
                   \/ Written(u)[k].t = "AckJoin" /\ Written(u)[k].chan = r

\* C35: when the mailbox branch of a session writes an event of room r, an
\* AckJoin for r was written to that client before, one for each join of
\* the session to r: the events a receiver got between its subscription and
\* the end of the handler wait in the topic and the mailbox meanwhile.
Count(seq, P(_)) == Cardinality({i \in 1..Len(seq) : P(seq[i])})
AcksOf(s, r) == LET P(x) == x.t = "AckJoin" /\ x.chan = r IN Count(Written(s), P)
JoinsOf(s, r) == LET P(x) == x = r IN Count(channels[s], P)
C35_AckJoinFirst ==
    [][\A s \in Sessions :
           /\ pc[s] = "run" /\ mbox[s] # <<>>
           /\ \E ok \in BOOLEAN : MailboxBranch(s, ok)
           /\ Len(out'[s]) > Len(out[s])
           => /\ LastAckJoin(s, Head(mbox[s]).chan) > 0
              /\ AcksOf(s, Head(mbox[s]).chan) = JoinsOf(s, Head(mbox[s]).chan)]_vars
C35_Witness ==
    \E s \in Pair :
        /\ Len(out[s]) >= 4
        /\ Written(s)[2].t = "AckJoin"
        /\ Written(s)[3].t = "Channel" /\ Written(s)[3].op = "Message"
        /\ Written(s)[3].who # user[s]
        /\ Written(s)[4] = Channel("UserAdd", user[s], 0, Written(s)[2].chan)

\* The direct responses written to s (everything but the room events), and
\* the responses a request of type t is answered with.
Direct(s) == LET P(x) == x.t # "Channel" IN SelectSeq(Written(s), P)
AnswerTo(t) ==
    CASE t = "Secure" -> {"Secure"}
      [] t = "Shared" -> {"Ack", "Error"}
      [] t = "Connect" -> {"AckConnect", "Error"}
      [] t = "JoinChan" -> {"AckJoin", "Error"}
      [] OTHER -> {}
Prefix(a, b) == Len(a) <= Len(b) /\ a = SubSeq(b, 1, Len(a))

\* C36: what is written to a client only grows at its end, by one response
\* in a step; the k-th direct response answers the k-th request the client
\* sent, whatever room events are written in between; and while a handler
\* has not written its response the session takes no further request.
C36_InOrder ==
    [][\A s \in Pair :
           /\ Prefix(out[s], out'[s]) /\ Len(out'[s]) <= Len(out[s]) + 1
           /\ Len(Direct(s)') <= Len(cl'[s].sent)
           /\ \A i \in 1..Len(Direct(s)') :
                  Direct(s)'[i].t \in AnswerTo(cl'[s].sent[i].body.t)
           /\ pc[s] \in {"join2", "join3"} => ~ENABLED ServerJoinChan(s)]_vars
C36_Witness ==
    \E s \in Pair : \E i, j, k \in 1..Len(out[s]) :
        /\ i < j /\ j < k
        /\ Written(s)[i].t = "AckJoin"
        /\ Written(s)[j].t = "Channel" /\ Written(s)[j].who # user[s]
        /\ Written(s)[k] = error("User already in channel")
        /\ Len(Direct(s)) = Len(cl[s].sent)
\* C37: a key installed on the codec of a session is never replaced, and
\* after a successful Connect the combined key and the codec keys of the
\* session stay as they are, whatever Secure or Shared requests arrive.
C37_HandshakeOnce ==
    [][\A s \in Sessions :
           /\ rkey[s] # NoKey => rkey'[s] = rkey[s] /\ wkey'[s] = wkey[s]
           /\ user[s] # "" => /\ combined'[s] = combined[s]
                              /\ rkey'[s] = rkey[s] /\ wkey'[s] = wkey[s]]_vars

\* C38: the Message a session publishes names the session's own nickname,
\* which is in the registry and is the nickname of no other session; the
\* receivers of the room get that event or nothing, and the direct response
\* names the same nickname.

C38_FromIsSender ==
    [][\A s \in Sessions, r \in Rooms :
           /\ pc[s] = "run" /\ user[s] # "" /\ ~poisoned /\ r \in chans
           /\ \E ok \in BOOLEAN : MessageChan(s, r, ok)
           => /\ user[s] \in db
              /\ \A t \in Sessions \ {s} : ~Holds(t, user[s])
              /\ \A t \in recvs : \E u \in recvs' :
                     /\ Same(t, u)
                     /\ \/ u.q = t.q
                        \/ /\ Len(u.q) = Len(t.q) + 1
                           /\ SubSeq(u.q, 1, Len(t.q)) = t.q
                           /\ Last(u.q).op = "Message"
                           /\ Last(u.q).who = user[s]
                           /\ Last(u.q).chan = r
              /\ \/ out'[s] = out[s]
                 \/ Last(Written(s)').who = user[s]]_vars
C38_Witness ==
    \E s, u \in Pair :
        /\ s # u /\ user[s] # "" /\ user[u] # "" /\ user[s] # user[u]
        /\ out[u] # <<>>
        /\ Last(Written(u)).t = "Channel" /\ Last(Written(u)).op = "Message"
        /\ Last(Written(u)).who = user[s]
        /\ Last(Written(s)) = Last(Written(u))

\* C39: in every state the subscriber list of each room holds no nickname
\* twice, the nicknames in it are the identifiers of the receivers of the
\* room that have not been dropped, and no two such receivers have the same
\* identifier.
C39_ListIsReceivers ==
    \A r \in Rooms :
        /\ \A i, j \in 1..Len(subs[r]) : subs[r][i] = subs[r][j] => i = j
        /\ Range(subs[r]) = {t.ident : t \in {u \in recvs : u.room = r}}
        /\ \A t, u \in recvs : t.room = r /\ u.room = r /\ t.ident = u.ident
                               => t.sess = u.sess
C39_Witness ==
    \E r \in Rooms, n \in Names, t \in recvs :
        /\ Left(n, r, TRUE) \in left
        /\ n \notin Range(subs[r])
        /\ \A u \in recvs : ~(u.room = r /\ u.ident = n)
        /\ t.spawned /\ ~(t.room = r /\ t.ident = n)
        /\ t.ident \in Range(subs[t.room])

====
